---- MODULE Spec2Model ----
(***************************************************************************)
(* A model of the HTTP range-streaming reader of htslib (CurlStream, its C *)
(* wrapper curlstream_*, the hFILE network backend hfile_net.c) together   *)
(* with the mock HTTP server the tests run it against, and of the buffered *)
(* hFILE layer as far as the test programs exercise it.                    *)
(***************************************************************************)
EXTENDS Integers, Sequences, FiniteSets, TLC

\* ------------------------------------------------------------------ bounds
\* size in bytes of the file the server serves (st.st_size)
FileSize == 3
\* largest body chunk the transport hands to writefunction in one call
MaxChunk == 2
\* largest n a caller passes to curlstream_read
MaxReadN == 2
\* capacity in bytes of an hFILE buffer
Capacity == 2
\* largest length of the file the copy program copies
MaxLen == 3
MaxTimeo == 2100
MaxOut == 3

\* ------------------------------------------------------------ small helpers
Min(a, b) == IF a < b THEN a ELSE b

\* the served file: FileSize distinct bytes
File == [i \in 1..FileSize |-> 64 + i]

\* the bytes of the file from 0-based position lo, len of them
FileSlice(lo, len) == SubSeq(File, lo + 1, lo + len)

RECURSIVE Flatten(_)
Flatten(q) == IF q = <<>> THEN <<>> ELSE Head(q) \o Flatten(Tail(q))

\* ------------------------------------------------- Range header, as text
Digits == <<"0", "1", "2", "3", "4", "5", "6", "7", "8", "9">>

IsDigit(ch) == \E d \in 1..10 : Digits[d] = ch

DigitVal(ch) == (CHOOSE d \in 1..10 : Digits[d] = ch) - 1

RECURSIVE ToDec(_)
ToDec(n) ==
    IF n < 10 THEN <<Digits[n + 1]>>
    ELSE ToDec(n \div 10) \o <<Digits[(n % 10) + 1]>>

\* operator<< of an off_t: signed decimal
FormatOfs(ofs) == IF ofs < 0 THEN <<"-">> \o ToDec(-ofs) ELSE ToDec(ofs)

BytesEq == <<"b", "y", "t", "e", "s", "=">>

\* CurlStream::open, "prepare request": the value of the range request
\* header, or <<>> when the header is not sent
RangeHeader(ofs) ==
    IF ofs # 0 THEN BytesEq \o FormatOfs(ofs) \o <<"-">> ELSE <<>>

npos == -1

\* std::string::find / rfind of one character, 0-based, npos when absent
find(s, ch) ==
    IF \E i \in 1..Len(s) : s[i] = ch
    THEN (CHOOSE i \in 1..Len(s) : s[i] = ch /\ \A j \in 1..(i - 1) : s[j] # ch) - 1
    ELSE npos

rfind(s, ch) ==
    IF \E i \in 1..Len(s) : s[i] = ch
    THEN (CHOOSE i \in 1..Len(s) : s[i] = ch /\ \A j \in (i + 1)..Len(s) : s[j] # ch) - 1
    ELSE npos

\* std::string::substr(pos, len), 0-based pos
substr(s, pos, len) == SubSeq(s, pos + 1, Min(pos + len, Len(s)))

RECURSIVE strtoullAcc(_, _)
strtoullAcc(s, acc) ==
    IF s = <<>> \/ ~IsDigit(Head(s)) THEN acc
    ELSE strtoullAcc(Tail(s), acc * 10 + DigitVal(Head(s)))

\* strtoull(s, nullptr, 10) on a string of digits followed by anything
strtoull(s) == strtoullAcc(s, 0)

NoRange == [ok |-> FALSE, lo |-> 0, hi |-> 0]

\* get_range_header: parses "bytes=lo-" / "bytes=lo-hi"; h = <<>> is a
\* request without the header
get_range_header(h, sz) ==
    IF h = <<>> THEN NoRange
    ELSE IF Len(h) < 8 \/ substr(h, 0, 6) # BytesEq THEN NoRange
    ELSE LET dashpos == find(h, "-") IN
         IF dashpos = npos \/ rfind(h, "-") # dashpos \/ dashpos < 7 THEN NoRange
         ELSE LET lo == strtoull(substr(h, 6, dashpos - 6)) IN
              IF dashpos < Len(h) - 1
              THEN LET hi == strtoull(substr(h, dashpos + 1, Len(h))) IN
                   [ok |-> hi >= lo, lo |-> lo, hi |-> hi]
              ELSE [ok |-> TRUE, lo |-> lo, hi |-> sz - 1]

\* ------------------------------------------------------- the mock server
TEST_BAM == "/NA18508.chr20.test.bam"

Urls == {TEST_BAM, "/missing"}

\* what the server answers to one GET: status, declared Content-Length,
\* the body bytes it will really deliver, and its own state afterwards
Answer(code, declared, body, trunc, fails) ==
    [code |-> code, declared |-> declared, body |-> body,
     trunc |-> trunc, fails |-> fails, mock |-> TRUE]

\* TestHTTPd::OnRequest
OnRequest(url, h, trunc, fails) ==
    IF fails # 0 THEN Answer(500, 0, <<>>, trunc, fails - 1)
    ELSE IF url # TEST_BAM THEN Answer(404, 0, <<>>, trunc, fails)
    ELSE LET r == get_range_header(h, FileSize) IN
         IF r.ok
         THEN IF r.lo < FileSize
              THEN LET full == r.hi - r.lo + 1
                       actual == IF trunc >= 0 THEN Min(trunc, full) ELSE full
                   IN Answer(206, full, FileSlice(r.lo, actual), -1, fails)
              ELSE Answer(416, 0, <<>>, trunc, fails)
         ELSE LET actual == IF trunc >= 0 THEN Min(trunc, FileSize) ELSE FileSize
              IN Answer(200, FileSize, FileSlice(0, actual), -1, fails)

\* answers of servers other than the mock one: an error status with an empty
\* body, no answer at all (code 0: the connection failed), a 2xx without
\* body, and a server that ignores the Range header and sends the whole file
OtherCodes == {0, 204, 304, 401, 403, 407, 408, 410, 418, 503, 504}

OtherAnswers(h, trunc, fails) ==
    {[Answer(c, 0, <<>>, trunc, fails) EXCEPT !.mock = FALSE] : c \in OtherCodes}
    \cup (IF h # <<>>
          THEN {[Answer(200, FileSize, File, trunc, fails) EXCEPT !.mock = FALSE]}
          ELSE {})

\* the answers a GET can get: the mock server's, or (for the test file's URL,
\* as served elsewhere) another server's
Answers(url, h, trunc, fails) ==
    {OnRequest(url, h, trunc, fails)}
    \cup (IF url = TEST_BAM THEN OtherAnswers(h, trunc, fails) ELSE {})

\* ------------------------------------------------------------ the transport
\* one response in flight, as libcurl sees it: rem is the part of the body
\* not yet handed to writefunction, result the CURLcode the transfer ends
\* with (libcurl checks the body against the declared length)
NoNet ==
    [live |-> FALSE, code |-> 0, rem |-> <<>>, result |-> "CURLE_OK",
     hdr |-> FALSE, S |-> 0, range |-> <<>>, mock |-> TRUE, short |-> FALSE,
     actual |-> 0]

TransferResult(a) ==
    IF a.code = 0 THEN "CURLE_COULDNT_CONNECT"
    ELSE IF Len(a.body) # a.declared THEN "CURLE_PARTIAL_FILE"
    ELSE "CURLE_OK"

NewNet(a, ofs, h) ==
    [live |-> TRUE, code |-> a.code, rem |-> a.body, result |-> TransferResult(a),
     hdr |-> FALSE, S |-> ofs, range |-> h, mock |-> a.mock,
     short |-> Len(a.body) # a.declared, actual |-> Len(a.body)]

\* the ways of cutting a prefix of rem into at most k chunks of 1..MaxChunk bytes
RECURSIVE Splits(_, _)
Splits(rem, k) ==
    IF k = 0 \/ rem = <<>> THEN {<<>>}
    ELSE {<<>>} \cup
         UNION {{<<SubSeq(rem, 1, i)>> \o t :
                    t \in Splits(SubSeq(rem, i + 1, Len(rem)), k - 1)} :
                i \in 1..Min(MaxChunk, Len(rem))}

\* what one curl_multi_perform call can bring: the response headers, some
\* body chunks (after the headers), the end of the transfer (after the body)
Progress(net) ==
    {p \in [hdr : BOOLEAN, chunks : Splits(net.rem, 2), fin : BOOLEAN] :
        /\ net.hdr => p.hdr
        /\ net.code = 0 => ~p.hdr
        /\ p.chunks # <<>> => p.hdr
        /\ p.fin => /\ Len(Flatten(p.chunks)) = Len(net.rem)
                    /\ p.hdr \/ net.code = 0}

NoProgress(net) == [hdr |-> net.hdr, chunks |-> <<>>, fin |-> FALSE]

\* -------------------------------------------------------------- FifoBuffer
\* write putting the new chunk in front of the queued ones
FifoWrite_Front(q, chunk) == IF Len(chunk) > 0 THEN <<chunk>> \o q ELSE q

\* FifoBuffer::write
FifoWrite(q, chunk) == IF Len(chunk) > 0 THEN Append(q, chunk) ELSE q

RECURSIVE FifoWriteAll(_, _)
FifoWriteAll(q, chunks) ==
    IF chunks = <<>> THEN q
    ELSE FifoWriteAll(FifoWrite(q, Head(chunks)), Tail(chunks))

\* readsome forgetting to push the unread remainder of the front chunk back
readsome_DropsRemainder(q, n) ==
    IF q = <<>> \/ n = 0 THEN [data |-> <<>>, q |-> q]
    ELSE [data |-> SubSeq(Head(q), 1, Min(Len(Head(q)), n)), q |-> Tail(q)]

\* FifoBuffer::readsome: the bytes copied out (neff of them) and the queue left
readsome(q, n) ==
    IF q = <<>> \/ n = 0 THEN [data |-> <<>>, q |-> q]
    ELSE LET fs == Len(Head(q))
             neff == Min(fs, n)
             remainder == IF neff < fs THEN SubSeq(Head(q), neff + 1, fs) ELSE <<>>
         IN [data |-> SubSeq(Head(q), 1, neff),
             q |-> IF Len(remainder) > 0 THEN <<remainder>> \o Tail(q) ELSE Tail(q)]

\* -------------------------------------------------------------- CurlStream
\* CurlStream::CurlStream
NewCurlStream ==
    [h_ |-> FALSE, m_ |-> FALSE, response_code_ |-> 0, buf_ |-> <<>>,
     final_msg_ |-> "null", final_read_rc_ |-> 1]

\* final_status taking every finished transfer for a successful one
final_status_AlwaysOk(final_msg) == 0

\* CurlStream::final_status
final_status(final_msg) == IF final_msg = "CURLE_OK" THEN 0 ELSE -1

\* the points where CurlStream::open can fail before the request is sent
SetupFaults == {"curl_global_init", "curl_multi_init", "curl_easy_init",
                "curl_multi_add_handle", "curl_easy_setopt"}

\* the points where a transport call inside perform() or block() can fail
PerformFaults == {"curl_multi_perform", "curl_easy_getinfo"}

\* ensure_curl_init: [ans, need_init afterwards, whether curl_global_init ran]
ensure_curl_init(need, fault) ==
    IF need
    THEN [ok |-> fault # "curl_global_init", need_init |-> FALSE, ran |-> TRUE]
    ELSE [ok |-> TRUE, need_init |-> need, ran |-> FALSE]

\* CurlStream::open up to the configured request (lines 266-309): the status
\* and the handles the object holds afterwards
OpenSetup(c, need, fault) ==
    IF c.m_ \/ c.h_ THEN [s |-> -2, cs |-> c, init |-> ensure_curl_init(FALSE, fault)]
    ELSE LET g == ensure_curl_init(need, fault) IN
         IF ~g.ok THEN [s |-> -1, cs |-> c, init |-> g]
         ELSE IF fault = "curl_multi_init" THEN [s |-> -1, cs |-> c, init |-> g]
         ELSE IF fault = "curl_easy_init"
              THEN [s |-> -1, cs |-> [c EXCEPT !.m_ = TRUE], init |-> g]
         ELSE IF fault = "curl_multi_add_handle"
              THEN [s |-> -1, cs |-> [c EXCEPT !.m_ = TRUE, !.h_ = FALSE], init |-> g]
         ELSE IF fault = "curl_easy_setopt"
              THEN [s |-> -1, cs |-> [c EXCEPT !.m_ = TRUE, !.h_ = TRUE], init |-> g]
         ELSE [s |-> 0, cs |-> [c EXCEPT !.m_ = TRUE, !.h_ = TRUE], init |-> g]

\* CurlStream::perform: one curl_multi_perform with its side effects
perform(c, net, p, fault) ==
    IF c.final_msg_ # "null" THEN [s |-> 0, cs |-> c, net |-> net]
    ELSE IF fault = "curl_multi_perform" THEN [s |-> -1, cs |-> c, net |-> net]
    ELSE LET got  == Len(Flatten(p.chunks))
             net2 == [net EXCEPT !.hdr = p.hdr,
                                 !.rem = SubSeq(net.rem, got + 1, Len(net.rem))]
             c2   == [c EXCEPT !.buf_ = FifoWriteAll(c.buf_, p.chunks)]
         IN IF c.response_code_ = 0 /\ fault = "curl_easy_getinfo"
            THEN [s |-> -1, cs |-> c2, net |-> net2]
            ELSE LET c3 == IF c.response_code_ = 0
                           THEN [c2 EXCEPT !.response_code_ =
                                              IF p.hdr THEN net.code ELSE 0]
                           ELSE c2
                 IN [s |-> 0,
                     cs |-> IF p.fin THEN [c3 EXCEPT !.final_msg_ = net.result] ELSE c3,
                     net |-> net2]

\* the checks without the one for 206 on a range request
OpenChecks_No206(ofs, response_code) ==
    IF response_code < 200 \/ response_code > 299 THEN -4 ELSE 0

\* CurlStream::open, the checks of the response code (lines 330-343)
OpenChecks(ofs, response_code) ==
    IF response_code < 200 \/ response_code > 299 THEN -4
    ELSE IF ofs > 0 /\ response_code # 206 THEN -8
    ELSE 0

\* open running its checks after the first perform(), whether or not the
\* response code has arrived
OpenAfterPerform_NoWait(c, ofs, s, blockfails) ==
    IF s # 0 THEN [k |-> "ret", rc |-> s, cs |-> c]
    ELSE IF c.final_msg_ # "null" /\ final_status(c.final_msg_) # 0
         THEN [k |-> "ret", rc |-> final_status(c.final_msg_),
               cs |-> [c EXCEPT !.final_read_rc_ = -1]]
    ELSE [k |-> "ret", rc |-> OpenChecks(ofs, c.response_code_), cs |-> c]

\* CurlStream::open after a perform() that returned s (lines 312-343):
\* either the loop goes on (after block(), which may fail) or open returns rc
OpenAfterPerform(c, ofs, s, blockfails) ==
    IF s # 0 THEN [k |-> "ret", rc |-> s, cs |-> c]
    ELSE IF c.final_msg_ = "null" /\ c.response_code_ = 0
         THEN IF blockfails THEN [k |-> "ret", rc |-> -1, cs |-> c]
              ELSE [k |-> "loop", rc |-> 0, cs |-> c]
    ELSE IF c.final_msg_ # "null" /\ final_status(c.final_msg_) # 0
         THEN [k |-> "ret", rc |-> final_status(c.final_msg_),
               cs |-> [c EXCEPT !.final_read_rc_ = -1]]
    ELSE [k |-> "ret", rc |-> OpenChecks(ofs, c.response_code_), cs |-> c]

\* CurlStream::read, "read some" (line 377)
ReadSome(c, n) ==
    LET r == readsome(c.buf_, n) IN
    [k |-> "ret", rc |-> Len(r.data), data |-> r.data, cs |-> [c EXCEPT !.buf_ = r.q]]

\* read returning what the FIFO holds, without waiting when it holds nothing
ReadEntry_NoWait(c, n) ==
    IF c.final_read_rc_ <= 0
    THEN [k |-> "ret", rc |-> c.final_read_rc_, data |-> <<>>, cs |-> c]
    ELSE IF ~c.h_ THEN [k |-> "ret", rc |-> -2, data |-> <<>>, cs |-> c]
    ELSE IF c.response_code_ < 200 \/ c.response_code_ > 299
         THEN [k |-> "ret", rc |-> -2, data |-> <<>>, cs |-> c]
    ELSE ReadSome(c, n)

\* CurlStream::read up to its first perform() (lines 351-356): it returns at
\* once, or has to drive the transport (k = "loop")
ReadEntry(c, n) ==
    IF c.final_read_rc_ <= 0
    THEN [k |-> "ret", rc |-> c.final_read_rc_, data |-> <<>>, cs |-> c]
    ELSE IF ~c.h_ THEN [k |-> "ret", rc |-> -2, data |-> <<>>, cs |-> c]
    ELSE IF c.response_code_ < 200 \/ c.response_code_ > 299
         THEN [k |-> "ret", rc |-> -2, data |-> <<>>, cs |-> c]
    ELSE IF c.buf_ = <<>> THEN [k |-> "loop", rc |-> 0, data |-> <<>>, cs |-> c]
    ELSE ReadSome(c, n)

\* read reporting the end of the transfer as soon as it is known, before the
\* bytes still in the FIFO
ReadAfterPerform_FinalFirst(c, n, s, blockfails) ==
    IF s # 0 THEN [k |-> "ret", rc |-> s, data |-> <<>>, cs |-> c]
    ELSE IF c.final_msg_ = "null" /\ c.buf_ = <<>>
         THEN IF blockfails THEN [k |-> "ret", rc |-> -1, data |-> <<>>, cs |-> c]
              ELSE [k |-> "loop", rc |-> 0, data |-> <<>>, cs |-> c]
    ELSE IF c.final_msg_ # "null"
         THEN LET f == final_status(c.final_msg_) IN
              [k |-> "ret", rc |-> f, data |-> <<>>,
               cs |-> [c EXCEPT !.final_read_rc_ = f]]
    ELSE ReadSome(c, n)

\* CurlStream::read after a perform() that returned s (lines 359-377)
ReadAfterPerform(c, n, s, blockfails) ==
    IF s # 0 THEN [k |-> "ret", rc |-> s, data |-> <<>>, cs |-> c]
    ELSE IF c.final_msg_ = "null" /\ c.buf_ = <<>>
         THEN IF blockfails THEN [k |-> "ret", rc |-> -1, data |-> <<>>, cs |-> c]
              ELSE [k |-> "loop", rc |-> 0, data |-> <<>>, cs |-> c]
    ELSE IF c.buf_ = <<>>
         THEN LET f == final_status(c.final_msg_) IN
              [k |-> "ret", rc |-> f, data |-> <<>>,
               cs |-> [c EXCEPT !.final_read_rc_ = f]]
    ELSE ReadSome(c, n)

\* the points where a transport call inside block() can fail before select
BlockFaults == {"curl_multi_timeout", "curl_multi_fdset"}

\* block() not called
NoBlock ==
    [pc |-> "off", curl_timeo |-> -1, fault |-> "none", s |-> 0,
     selected |-> FALSE, tv_sec |-> 0, tv_usec |-> 0]

\* the timeout values the transport can suggest: none (-1) or a number of ms
Timeos == -1..MaxTimeo

\* CurlStream::block (lines 428-464) when curl_multi_timeout stores curl_timeo:
\* the status returned, whether select was called, and the timeval it got
block(curl_timeo, fault) ==
    LET sec0 == 1
        usec0 == 0
        sec1 == IF curl_timeo >= 0 THEN curl_timeo \div 1000 ELSE sec0
        sec == IF curl_timeo >= 0 /\ sec1 > 1 THEN 1 ELSE sec1
        usec == IF curl_timeo >= 0 /\ ~(sec1 > 1) THEN (curl_timeo % 1000) * 1000
                ELSE usec0
    IN IF fault = "curl_multi_timeout"
       THEN [s |-> -1, selected |-> FALSE, tv_sec |-> sec0, tv_usec |-> usec0]
       ELSE IF fault = "curl_multi_fdset"
            THEN [s |-> -1, selected |-> FALSE, tv_sec |-> sec, tv_usec |-> usec]
       ELSE [s |-> 0, selected |-> TRUE, tv_sec |-> sec, tv_usec |-> usec]

\* ---------------------------------------------- the buffered hFILE layer
\* (hfile.c: the part of the library the backends plug into)
\* buf holds the bytes of buffer[begin, end); offset is the position in the
\* stream of buffer[begin]
NoH ==
    [live |-> FALSE, mode |-> "r", buf |-> <<>>, begin |-> 0, end |-> 0,
     offset |-> 0, at_eof |-> FALSE, err |-> "0"]

\* hfile_init
NewH(mode) == [NoH EXCEPT !.live = TRUE, !.mode = mode]

\* htell: the caller's position
htell(f) == IF f.mode = "w" THEN f.offset + (f.end - f.begin) ELSE f.offset

\* herrno: the sticky error
herrno(f) == f.err

\* the buffer emptied
Discard(f) == [f EXCEPT !.buf = <<>>, !.begin = 0, !.end = 0]

\* hread served from the buffer: at most n of the buffered bytes
hread_buffered(f, n) ==
    LET k == Min(n, f.end - f.begin) IN
    [k |-> "ret", rc |-> k, data |-> SubSeq(f.buf, 1, k),
     f |-> [f EXCEPT !.buf = SubSeq(f.buf, k + 1, Len(f.buf)),
                     !.begin = @ + k, !.offset = @ + k]]

\* hread up to the point where the backend has to be asked (k = "refill")
hread_entry(f, n) ==
    IF f.err # "0" THEN [k |-> "ret", rc |-> -1, data |-> <<>>, f |-> f]
    ELSE IF f.end > f.begin THEN hread_buffered(f, n)
    ELSE IF f.at_eof THEN [k |-> "ret", rc |-> 0, data |-> <<>>, f |-> f]
    ELSE [k |-> "refill", rc |-> 0, data |-> <<>>, f |-> f]

\* the buffer refill contract: backend.read(buffer, capacity) returned r,
\* with the bytes data when r > 0 and errno = e when r < 0
refill(f, r, data, e) ==
    LET g == [Discard(f) EXCEPT !.offset = @ + (f.end - f.begin)] IN
    IF r > 0 THEN [g EXCEPT !.buf = data, !.end = r]
    ELSE IF r = 0 THEN [g EXCEPT !.at_eof = TRUE]
    ELSE [g EXCEPT !.err = e]

\* hread after its single backend read
hread_after(f, n, r, data, e) ==
    LET g == refill(f, r, data, e) IN
    IF r > 0 THEN hread_buffered(g, n)
    ELSE [k |-> "ret", rc |-> IF r = 0 THEN 0 ELSE -1, data |-> <<>>, f |-> g]

\* hseek in read mode up to the point where the backend has to be asked
hseek_entry(f, k, whence) ==
    IF f.err # "0" THEN [k |-> "ret", rc |-> -1, data |-> <<>>, f |-> f]
    ELSE IF whence = "SEEK_SET" /\ k >= f.offset /\ k < f.offset + (f.end - f.begin)
         THEN LET d == k - f.offset IN
              [k |-> "ret", rc |-> k, data |-> <<>>,
               f |-> [f EXCEPT !.buf = SubSeq(f.buf, d + 1, Len(f.buf)),
                               !.begin = @ + d, !.offset = k]]
    ELSE [k |-> "seek", rc |-> 0, data |-> <<>>, f |-> f]

\* hseek after backend.seek returned pos, with errno = e when pos < 0
hseek_after(f, pos, e) ==
    IF pos < 0 THEN [rc |-> -1, f |-> [Discard(f) EXCEPT !.err = e]]
    ELSE [rc |-> pos, f |-> [Discard(f) EXCEPT !.offset = pos, !.at_eof = FALSE]]

\* hopen_net: the hFILE left after curlstream_open returned c
hopen_net(c) == IF c = 0 THEN NewH("r") ELSE NoH

\* an hFILE call that ends with a backend call (hop) or a backend call made
\* by itself (hop = "none"): what the caller gets when the backend call op,
\* made with n, has returned rc with data and errno = e
HAfter(h, f, op, n, rc, data, e) ==
    CASE h.hop = "hread" ->
           LET a == hread_after(f, h.hn, rc, data, e) IN
           [op |-> "hread", n |-> h.hn, rc |-> a.rc, data |-> a.data, f |-> a.f]
      [] h.hop \in {"hseek", "hseek_end"} ->
           LET a == hseek_after(f, rc, e) IN
           [op |-> h.hop, n |-> h.hn, rc |-> a.rc, data |-> <<>>, f |-> a.f]
      [] OTHER ->
           [op |-> op, n |-> n, rc |-> rc, data |-> data,
            f |-> IF op = "hopen" THEN hopen_net(rc)
                  ELSE IF op = "close" THEN NoH ELSE f]

\* ------------------------------------------- streams on the file backend
\* a file: its bytes and the position of its descriptor
NoFile == [data |-> <<>>, pos |-> 0]

\* the backend's read: read(fd, buffer, n)
file_read(file, n) ==
    LET k == Min(n, Len(file.data) - file.pos) IN
    [r |-> k, data |-> SubSeq(file.data, file.pos + 1, file.pos + k),
     file |-> [file EXCEPT !.pos = @ + k]]

\* the backend's write: write(fd, bytes, Len(bytes))
file_write(file, bytes) ==
    [data |-> SubSeq(file.data, 1, file.pos) \o bytes
                \o SubSeq(file.data, file.pos + Len(bytes) + 1, Len(file.data)),
     pos |-> file.pos + Len(bytes)]

\* a stream s is an hFILE f on a file
NoStream == [f |-> NoH, file |-> NoFile]

\* hopen(name, mode) of the file holding data
hopen(data, mode) ==
    [f |-> NewH(mode),
     file |-> [data |-> IF mode = "w" THEN <<>> ELSE data, pos |-> 0]]

EOF == -1

\* hread(s, dst, n)
hread(s, n) ==
    LET e == hread_entry(s.f, n) IN
    IF e.k = "ret" THEN [rc |-> e.rc, data |-> e.data, s |-> [s EXCEPT !.f = e.f]]
    ELSE LET b == file_read(s.file, Capacity)
             a == hread_after(s.f, n, b.r, b.data, "0")
         IN [rc |-> a.rc, data |-> a.data, s |-> [f |-> a.f, file |-> b.file]]

\* hpeek's backend reads: the buffered bytes slid to buffer[0], and reads
\* into the room behind them until n bytes are buffered or the file ends
RECURSIVE hpeek_fill(_, _)
hpeek_fill(s, n) ==
    IF s.f.end - s.f.begin >= n \/ s.f.at_eof THEN s
    ELSE LET have == s.f.end - s.f.begin
             b == file_read(s.file, Capacity - have)
             slid == [s.f EXCEPT !.begin = 0, !.end = have]
             g == IF b.r > 0 THEN [slid EXCEPT !.buf = @ \o b.data, !.end = have + b.r]
                  ELSE [slid EXCEPT !.at_eof = TRUE]
         IN hpeek_fill([f |-> g, file |-> b.file], n)

\* hpeek(s, dst, n)
hpeek(s, n) ==
    IF s.f.err # "0" THEN [rc |-> -1, data |-> <<>>, s |-> s]
    ELSE LET t == hpeek_fill(s, Min(n, Capacity))
             k == Min(n, t.f.end - t.f.begin)
         IN [rc |-> k, data |-> SubSeq(t.f.buf, 1, k), s |-> t]

\* hgetc(s): the byte as an unsigned char, or EOF
hgetc(s) ==
    LET a == hread(s, 1) IN
    [c |-> IF a.rc = 1 THEN a.data[1] ELSE EOF, s |-> a.s]

\* hflush leaving offset where it was
hflush_KeepsOffset(s) ==
    IF s.f.err # "0" THEN [rc |-> EOF, s |-> s]
    ELSE [rc |-> 0, s |-> [f |-> Discard(s.f), file |-> file_write(s.file, s.f.buf)]]

\* hwrite's staging without the write-out of a full buffer
hwrite_stage_NoFlush(s, data) ==
    IF data = <<>> THEN s
    ELSE [s EXCEPT !.f.buf = @ \o data, !.f.end = @ + Len(data)]

\* hflush(s): the pending bytes go to the backend
hflush(s) ==
    IF s.f.err # "0" THEN [rc |-> EOF, s |-> s]
    ELSE [rc |-> 0,
          s |-> [f |-> [Discard(s.f) EXCEPT !.offset = @ + Len(s.f.buf)],
                 file |-> file_write(s.file, s.f.buf)]]

\* hwrite's staging: bytes go to the buffer, which is written out when full
RECURSIVE hwrite_stage(_, _)
hwrite_stage(s, data) ==
    IF data = <<>> THEN s
    ELSE LET take == Min(Capacity - (s.f.end - s.f.begin), Len(data))
             g == [s EXCEPT !.f.buf = @ \o SubSeq(data, 1, take), !.f.end = @ + take]
             t == IF g.f.end - g.f.begin = Capacity THEN hflush(g).s ELSE g
         IN hwrite_stage(t, SubSeq(data, take + 1, Len(data)))

\* hwrite(s, src, Len(data))
hwrite(s, data) ==
    IF s.f.err # "0" THEN [rc |-> -1, s |-> s]
    ELSE [rc |-> Len(data), s |-> hwrite_stage(s, data)]

\* hputc(c, s): c is stored as an unsigned char
hputc(c, s) ==
    LET a == hwrite(s, <<c % 256>>) IN
    [c |-> IF a.rc = 1 THEN c % 256 ELSE EOF, s |-> a.s]

\* the C string in buffer: the bytes before the first NUL
RECURSIVE CStr(_)
CStr(buffer) ==
    IF buffer = <<>> \/ Head(buffer) = 0 THEN <<>>
    ELSE <<Head(buffer)>> \o CStr(Tail(buffer))

\* hputs(str, s)
hputs(str, s) ==
    LET a == hwrite(s, CStr(str)) IN
    [rc |-> IF a.rc < 0 THEN EOF ELSE 0, s |-> a.s]

\* hclose(s): the hFILE is gone, the file stays
hclose(s) ==
    LET t == IF s.f.mode = "w" THEN hflush(s) ELSE [rc |-> 0, s |-> s] IN
    [rc |-> t.rc, s |-> [f |-> NoH, file |-> t.s.file]]

\* the backend's seek: lseek(fd, k, SEEK_SET)
file_seek(file, k) ==
    IF k < 0 \/ k > Len(file.data) THEN [pos |-> -1, file |-> file]
    ELSE [pos |-> k, file |-> [file EXCEPT !.pos = k]]

\* hseek(s, k, SEEK_SET): in write mode the pending bytes are flushed first
hseek(s, k) ==
    LET t == IF s.f.mode = "w" /\ s.f.end > s.f.begin THEN hflush(s)
             ELSE [rc |-> 0, s |-> s]
        e == hseek_entry(t.s.f, k, "SEEK_SET")
    IN IF t.rc < 0 THEN [rc |-> -1, s |-> t.s]
       ELSE IF e.k = "ret" THEN [rc |-> e.rc, s |-> [t.s EXCEPT !.f = e.f]]
       ELSE LET b == file_seek(t.s.file, k)
                a == hseek_after(t.s.f, b.pos, "EINVAL")
            IN [rc |-> a.rc, s |-> [f |-> a.f, file |-> b.file]]

\* ------------------------------------------- the copy program's operations
\* the byte values files are made of
ByteVals == {0, 65, 255}

\* the contents of the input file
Contents == UNION {[1..k -> ByteVals] : k \in 0..MaxLen}

\* --- the mem: backend
\* a stream on mem: is an hFILE on the bytes of the caller's buffer; the
\* caller's variables are mbuffer (null, or the bytes written to it) and
\* mlength, and cap is the size the backend has allocated
NullBuffer == [null |-> TRUE, bytes |-> <<>>]

\* doubling growth: the capacity that holds size bytes
RECURSIVE mem_grow(_, _)
mem_grow(cap, size) ==
    IF cap >= size THEN cap ELSE mem_grow(IF cap = 0 THEN 1 ELSE 2 * cap, size)

\* the caller's variables in c once the backend holds the bytes of stream s:
\* *pmbuffer is the (re)allocated buffer, *pmlength the allocated capacity
mem_written(c, s) ==
    LET size == Len(s.file.data)
        cap == mem_grow(c.cap, size)
    IN IF size = 0 THEN c
       ELSE [c EXCEPT !.cap = cap, !.mlength = cap,
                      !.mbuffer = [null |-> FALSE, bytes |-> s.file.data]]

\* the backend's close in write mode: *pmlength is the size written
mem_closed(c, s) == [mem_written(c, s) EXCEPT !.mlength = Len(s.file.data)]

\* what a stream opened for reading can find in (*pmbuffer)[0 .. *pmlength):
\* the bytes written, and any bytes where the buffer was never written
mem_contents(mbuffer, mlength) ==
    IF mlength <= Len(mbuffer.bytes) THEN {SubSeq(mbuffer.bytes, 1, mlength)}
    ELSE {mbuffer.bytes \o pad :
            pad \in [1..(mlength - Len(mbuffer.bytes)) -> ByteVals]}

\* --- main
\* the four copy-through loops
Kinds == {"hgetc", "hpeek_hread", "hread_hpeek", "hread_hputs_hpeek"}

\* the part of main that writes to mem: and reads it back
MemKinds == {"mem"}

\* no peek made yet
NoPeek == [n |-> 0, rc |-> 0, pre |-> 0, post |-> 0]

\* off: the fourth loop's count of the bytes read; pk: the last hpeek of that
\* loop (n asked, rc returned, htell before and after); pend: the bytes its
\* peeks have returned that no hread has returned yet; ok: whether every
\* hread and hpeek so far has agreed with pend; round: 1 in the first mem:
\* test and 2 in the second; mbuffer, mlength: main's variables of these
\* names; cap: the size of the allocation behind mbuffer; in the test of
\* interleaved reads, writes and seeks, op is the call made last on fout, pk
\* its argument, its result and htell(fout) before and after, off the
\* offset main expects of fout (check_offset) and got the bytes main expects
\* in the output file once nothing is pending
NoCopy ==
    [pc |-> "off", kind |-> "none", src |-> <<>>, fin |-> NoStream,
     fout |-> NoStream, got |-> <<>>, off |-> 0, pk |-> NoPeek, pend |-> <<>>,
     ok |-> TRUE, round |-> 1, mbuffer |-> NullBuffer, mlength |-> 0, cap |-> 0,
     op |-> "none"]

\* reopen(infname, outfname)
reopen(c) ==
    [c EXCEPT !.fin = hopen(c.src, "r"), !.fout = hopen(<<>>, "w"),
              !.pc = IF c.kind = "hpeek_hread" THEN "peek" ELSE "copy"]

\* if (hpeek(fin, buffer, n) < 0) fail("hpeek")
peek_first(c, n) ==
    LET a == hpeek(c.fin, n) IN
    [c EXCEPT !.fin = a.s, !.pc = IF a.rc < 0 THEN "failed" ELSE "copy"]

\* the hgetc loop with c declared char (signed) instead of int
getc_loop_SignedChar(c) ==
    LET g == hgetc(c.fin)
        ch == IF g.c >= 128 THEN g.c - 256 ELSE g.c
    IN IF ch = EOF
       THEN [c EXCEPT !.fin = g.s,
                      !.pc = IF herrno(g.s.f) # "0" THEN "failed" ELSE "eof"]
       ELSE LET p == hputc(ch, c.fout) IN
            [c EXCEPT !.fin = g.s, !.fout = p.s,
                      !.pc = IF p.c = EOF THEN "failed" ELSE "copy"]

\* while ((c = hgetc(fin)) != EOF) hputc(c, fout); then herrno(fin)
getc_loop(c) ==
    LET g == hgetc(c.fin) IN
    IF g.c = EOF
    THEN [c EXCEPT !.fin = g.s,
                   !.pc = IF herrno(g.s.f) # "0" THEN "failed" ELSE "eof"]
    ELSE LET p == hputc(g.c, c.fout) IN
         [c EXCEPT !.fin = g.s, !.fout = p.s,
                   !.pc = IF p.c = EOF THEN "failed" ELSE "copy"]

\* while ((n = hread(fin, buffer, n)) > 0) hwrite(fout, buffer, n), with the
\* hpeek(fin, buffer, pn) of the third loop; then n < 0
read_loop(c, n, pn) ==
    LET a == hread(c.fin, n) IN
    IF a.rc > 0
    THEN LET w == hwrite(c.fout, a.data)
             k == IF c.kind = "hread_hpeek" THEN hpeek(a.s, pn)
                  ELSE [rc |-> 0, data |-> <<>>, s |-> a.s]
         IN [c EXCEPT !.fin = IF w.rc # a.rc THEN a.s ELSE k.s, !.fout = w.s,
                      !.pc = IF w.rc # a.rc \/ k.rc < 0 THEN "failed" ELSE "copy"]
    ELSE [c EXCEPT !.fin = a.s, !.pc = IF a.rc < 0 THEN "failed" ELSE "eof"]

\* check_offset(f, off): whether htell(f) is off (the program exits if not)
check_offset(f, off) == htell(f) = off

\* a and b are equal as far as both go
Agree(a, b) == \A i \in 1..Min(Len(a), Len(b)) : a[i] = b[i]

\* seq without its first k elements
Drop(seq, k) == SubSeq(seq, k + 1, Len(seq))

\* the fourth loop with hread where the hpeek is
puts_loop_ReadsForPeek(c, n, pn) ==
    LET a == hread(c.fin, n) IN
    IF a.rc > 0
    THEN LET off == c.off + a.rc
             w == hputs(a.data, c.fout)
             k == hread(a.s, pn)
             left == Drop(c.pend, a.rc)
         IN [c EXCEPT !.fin = k.s, !.fout = w.s, !.off = off,
                      !.pk = [n |-> pn, rc |-> k.rc, pre |-> htell(a.s.f),
                              post |-> htell(k.s.f)],
                      !.pend = IF Len(k.data) > Len(left) THEN k.data ELSE left,
                      !.ok = c.ok /\ Agree(c.pend, a.data) /\ Agree(left, k.data),
                      !.pc = IF ~check_offset(a.s.f, off) \/ w.rc = EOF \/ k.rc < 0
                                \/ ~check_offset(k.s.f, off)
                             THEN "failed" ELSE "copy"]
    ELSE [c EXCEPT !.fin = a.s, !.ok = c.ok /\ c.pend = <<>>,
                   !.pc = IF a.rc < 0 THEN "failed" ELSE "eof"]

\* while ((n = hread(fin, buffer, n)) > 0) { off += n; check_offset(fin, off);
\* hputs(buffer, fout); hpeek(fin, buffer, pn); check_offset(fin, off); }
puts_loop(c, n, pn) ==
    LET a == hread(c.fin, n) IN
    IF a.rc > 0
    THEN LET off == c.off + a.rc
             w == hputs(a.data, c.fout)
             k == hpeek(a.s, pn)
             left == Drop(c.pend, a.rc)
         IN [c EXCEPT !.fin = k.s, !.fout = w.s, !.off = off,
                      !.pk = [n |-> pn, rc |-> k.rc, pre |-> htell(a.s.f),
                              post |-> htell(k.s.f)],
                      !.pend = IF Len(k.data) > Len(left) THEN k.data ELSE left,
                      !.ok = c.ok /\ Agree(c.pend, a.data) /\ Agree(left, k.data),
                      !.pc = IF ~check_offset(a.s.f, off) \/ w.rc = EOF \/ k.rc < 0
                                \/ ~check_offset(k.s.f, off)
                             THEN "failed" ELSE "copy"]
    ELSE [c EXCEPT !.fin = a.s, !.ok = c.ok /\ c.pend = <<>>,
                   !.pc = IF a.rc < 0 THEN "failed" ELSE "eof"]

\* hclose(fin), hclose(fout), and fin = hopen(outfname, "r")
close_and_reread(c) ==
    LET i == hclose(c.fin)
        o == hclose(c.fout)
    IN IF i.rc # 0 \/ o.rc # 0
       THEN [c EXCEPT !.fin = i.s, !.fout = o.s, !.pc = "failed"]
       ELSE [c EXCEPT !.fin = hopen(o.s.file.data, "r"), !.fout = o.s,
                      !.pc = "reread"]

\* c = hgetc(fin), compared with the byte expected or with EOF
reread_loop(c) ==
    LET g == hgetc(c.fin) IN
    IF g.c = EOF THEN [c EXCEPT !.fin = g.s, !.pc = "done"]
    ELSE [c EXCEPT !.fin = g.s, !.got = Append(@, g.c)]

\* mbuffer = 0; mlength = 999999 (before the first test); fout =
\* hopen(memfname, "w"), which starts an empty stream
mem_open(c) ==
    LET d == IF c.round = 1
             THEN [c EXCEPT !.mbuffer = NullBuffer, !.mlength = 999999]
             ELSE c
    IN [d EXCEPT !.fout = hopen(<<>>, "w"), !.cap = 0, !.off = 0, !.pc = "m_write"]

\* hwrite(fout, buffer, n): all the bytes at once in the first test, one byte
\* a time in the second; after the last, htell(fout) is checked
mem_write_loop(c) ==
    LET n == IF c.round = 1 THEN Len(c.src) ELSE 1
        w == hwrite(c.fout, SubSeq(c.src, c.off + 1, c.off + n))
        d == mem_written([c EXCEPT !.fout = w.s, !.off = @ + n], w.s)
    IN IF w.rc # n THEN [d EXCEPT !.pc = "failed"]
       ELSE IF d.off < Len(c.src) THEN d
       ELSE [d EXCEPT !.pc = IF htell(w.s.f) # Len(c.src) THEN "failed"
                                ELSE "m_close"]

\* the checks main makes of mbuffer and mlength after hclose(fout): all three
\* in the first test, the one of mlength in the second
mem_checks(c) ==
    /\ c.round = 1 => ~c.mbuffer.null
    /\ c.mlength >= Len(c.src)
    /\ c.round = 1 => /\ Len(c.mbuffer.bytes) >= Len(c.src)
                      /\ SubSeq(c.mbuffer.bytes, 1, Len(c.src)) = c.src

\* the same with hflush(fout) where the hclose(fout) is
mem_close_FlushOnly(c) ==
    LET o == hflush(c.fout)
        d == mem_written([c EXCEPT !.fout = o.s], o.s)
    IN IF o.rc # 0 \/ ~mem_checks(d) THEN [d EXCEPT !.pc = "failed"]
       ELSE [d EXCEPT !.pc = "m_reopen"]

\* if (hclose(fout) != 0) fail(...); then the checks
mem_close(c) ==
    LET o == hclose(c.fout)
        d == mem_closed([c EXCEPT !.fout = o.s], o.s)
    IN IF o.rc # 0 \/ ~mem_checks(d) THEN [d EXCEPT !.pc = "failed"]
       ELSE [d EXCEPT !.pc = "m_reopen"]

\* mlength = 14 (the first test only): the length main gives the reader
mem_length(c) == IF c.round = 1 THEN Len(c.src) ELSE c.mlength

\* fin = hopen(memfname, "r"), which finds data; the second test reads from
\* the last byte back (main starts at the middle of what it wrote)
mem_reopen(c, data) ==
    [c EXCEPT !.mlength = mem_length(c), !.fin = hopen(data, "r"), !.got = <<>>,
              !.off = Len(c.src) - 1, !.pc = "m_read"]

\* n = hread(fin, buffer, 300); buffer[n] = '\0'; strcmp(buffer, text);
\* hclose(fin)
mem_read_all(c) ==
    LET a == hread(c.fin, 300)
        i == hclose(a.s)
    IN IF a.rc < 0 \/ CStr(a.data) # CStr(c.src) \/ i.rc # 0
       THEN [c EXCEPT !.fin = a.s, !.pc = "failed"]
       ELSE [c EXCEPT !.fin = i.s, !.got = a.data, !.round = 2, !.pc = "m_next"]

\* hseek(fin, i, SEEK_SET); hread(fin, &c, 1) with char c; c != i % 128;
\* after the last turn, hclose(fin)
mem_seek_read(c) ==
    LET k == hseek(c.fin, c.off)
        a == hread(k.s, 1)
        ch == IF a.rc # 1 THEN EOF
              ELSE IF a.data[1] >= 128 THEN a.data[1] - 256 ELSE a.data[1]
    IN IF k.rc < 0 THEN [c EXCEPT !.fin = k.s, !.pc = "failed"]
       ELSE IF a.rc # 1 \/ ch # c.src[c.off + 1]
            THEN [c EXCEPT !.fin = a.s, !.pc = "failed"]
       ELSE IF c.off > 0
            THEN [c EXCEPT !.fin = a.s, !.got = <<a.data[1]>> \o @, !.off = @ - 1]
       ELSE LET i == hclose(a.s) IN
            [c EXCEPT !.fin = i.s, !.got = <<a.data[1]>> \o @,
                      !.pc = IF i.rc # 0 THEN "failed" ELSE "m_done"]

\* --- main, the interleaved reads, writes and seeks (lines 141-168)
\* the part of main that reads, writes and seeks on fin and fout in turn
RWKinds == {"rw"}

\* the calls that hand bytes to a stream
WriteApis == {"hwrite", "hputc", "hputs"}

\* what the call op returned with argument n on fout, whose htell was pre and
\* is post
Called(c, op, n, rc, pre, post) ==
    [c EXCEPT !.op = op, !.pk = [n |-> n, rc |-> rc, pre |-> pre, post |-> post]]

\* n = hread(fin, buffer, n)
rw_read(c, n) ==
    LET a == hread(c.fin, n) IN
    [c EXCEPT !.fin = a.s]

\* n = hpeek(fin, buffer, n)
rw_peek(c, n) ==
    LET a == hpeek(c.fin, n) IN
    [c EXCEPT !.fin = a.s]

\* hwrite(fout, buffer, n), hputc(buffer[0], fout) or hputs(buffer, fout):
\* the bytes the call accepted go where main expects them in the file
rw_write(c, api, data) ==
    LET a == CASE api = "hwrite" -> hwrite(c.fout, data)
               [] api = "hputc" -> LET p == hputc(data[1], c.fout) IN
                                   [rc |-> IF p.c = EOF THEN -1 ELSE 1, s |-> p.s]
               [] OTHER -> LET p == hputs(data, c.fout) IN
                           [rc |-> IF p.rc = EOF THEN -1 ELSE Len(CStr(data)), s |-> p.s]
        acc == IF a.rc < 0 THEN <<>>
               ELSE CASE api = "hwrite" -> data
                      [] api = "hputc" -> <<data[1]>>
                      [] OTHER -> CStr(data)
    IN Called([c EXCEPT !.fout = a.s,
                        !.off = @ + Len(acc),
                        !.got = file_write([data |-> c.got, pos |-> c.off], acc).data],
              api, Len(data), a.rc, htell(c.fout.f), htell(a.s.f))

\* hflush(fout)
rw_flush(c) ==
    LET a == hflush(c.fout) IN
    Called([c EXCEPT !.fout = a.s], "hflush", 0, a.rc, htell(c.fout.f), htell(a.s.f))

\* hseek(fin, k, SEEK_SET)
rw_seek_in(c, k) ==
    LET a == hseek(c.fin, k) IN
    [c EXCEPT !.fin = a.s]

\* hseek(fout, k, SEEK_SET); main expects fout at k when the seek succeeds
rw_seek_out(c, k) ==
    LET a == hseek(c.fout, k) IN
    Called([c EXCEPT !.fout = a.s, !.off = IF a.rc >= 0 THEN k ELSE @],
           "hseek_out", k, a.rc, htell(c.fout.f), htell(a.s.f))

\* ------------------------------------------------------------------- state
VARIABLES
    truncate_response_,   \* TestHTTPd::truncate_response_
    requests_to_fail_,    \* TestHTTPd::requests_to_fail_
    need_init,            \* ensure_curl_init's static need_init
    errno,                \* errno as the current or last API call has set it
                          \* ("0": not set; the caller clears it before a call)
    box,                  \* the CurlStreamBox of the open stream, if any
    cs,                   \* the CurlStream box.stm points to, if any
    net,                  \* the response in flight for cs
    pc,                   \* where the client thread is: "idle", "open", "read"
    call,                 \* the API call in progress
    last,                 \* the API call that has just returned, with its result
    out,                  \* what reads have delivered since the open or last seek
    res,                  \* the live objects, and whether a call of the transport
                          \* library has failed for the current CurlStream
    hf,                   \* the hFILE of the open stream (fp->base), if any
    cp,                   \* the copy program: its files, its streams, its position
    blk,                  \* a call of CurlStream::block: what the transport
                          \* suggested and the timeval select was given
    hist                  \* what has happened before (kept when hist.mode says
                          \* so): the calls of curl_global_init with the result
                          \* of the last, and the session the last seek replaced

vars == <<truncate_response_, requests_to_fail_, need_init, errno, box, cs, net,
          pc, call, last, out, res, hf, cp, blk, hist>>

server == <<truncate_response_, requests_to_fail_>>

\* CurlStreamBox::CurlStreamBox
NewBox(url, ofs) == [live |-> TRUE, url |-> url, ofs |-> ofs, stm |-> FALSE]

NoBox == [live |-> FALSE, url |-> "", ofs |-> 0, stm |-> FALSE]

\* fn(n): the curlstream call in progress; hop(hn): the hFILE call that made it
NoCall == [fn |-> "none", n |-> 0, hop |-> "none", hn |-> 0]

\* no hFILE call: the backend is called by itself
Raw == [hop |-> "none", hn |-> 0]

\* the hFILE call in progress
HCtx == [hop |-> call.hop, hn |-> call.hn]

\* code: the response code the CurlStream of the call had received
NoLast == [op |-> "none", n |-> 0, rc |-> 0, code |-> 0]

\* bytes: the bytes reads have returned since the open or the last seek, base:
\* the offset asked for then, sess: the sessions started since (up to 2),
\* seeks: whether a seek has moved the stream, short: whether the mock server
\* has truncated the response of a session started since, other: whether a
\* session started since was answered by another server or with a 500
NewOut(base, seeks) ==
    [base |-> base, bytes |-> <<>>, sess |-> 0, seeks |-> seeks,
     short |-> FALSE, other |-> FALSE]

\* the client's objects as one record, for the operators below
World == [box |-> box, cs |-> cs, net |-> net, errno |-> errno, res |-> res]

\* the same at the entry of an API call
Entry == [World EXCEPT !.errno = "0"]

Count(b) == IF b THEN 1 ELSE 0

\* CurlStream::~CurlStream, through "delete s->stm"
Destroy(w) ==
    [w EXCEPT !.cs = NewCurlStream, !.net = NoNet, !.box.stm = FALSE,
              !.res.easy = @ - Count(w.cs.h_),
              !.res.multi = @ - Count(w.cs.m_),
              !.res.stms = @ - 1]

\* the switch of open_helper without its case for 503
ErrnoOf_No503(ret) ==
    CASE ret \in {401, 407} -> "EPERM"
      [] ret = 403 -> "EACCES"
      [] ret \in {404, 410} -> "ENOENT"
      [] ret \in {408, 504} -> "ETIMEDOUT"
      [] OTHER -> IF ret >= 400 /\ ret < 500 THEN "EINVAL" ELSE "EIO"

\* the switch of open_helper without its default case: errno is left alone
ErrnoOf_NoDefault(ret) ==
    CASE ret \in {401, 407} -> "EPERM"
      [] ret = 403 -> "EACCES"
      [] ret \in {404, 410} -> "ENOENT"
      [] ret \in {408, 504} -> "ETIMEDOUT"
      [] ret = 503 -> "EAGAIN"
      [] OTHER -> "0"

\* open_helper, the errno it leaves for response code ret (lines 490-501)
ErrnoOf(ret) ==
    CASE ret = 401 -> "EPERM"
      [] ret = 403 -> "EACCES"
      [] ret = 404 -> "ENOENT"
      [] ret = 407 -> "EPERM"
      [] ret = 408 -> "ETIMEDOUT"
      [] ret = 410 -> "ENOENT"
      [] ret = 503 -> "EAGAIN"
      [] ret = 504 -> "ETIMEDOUT"
      [] OTHER -> IF ret >= 400 /\ ret < 500 THEN "EINVAL" ELSE "EIO"

\* open_helper leaving the CurlStream whose open failed in s->stm
OpenHelperTail_KeepsStream(w, c) ==
    IF c = 0 THEN w
    ELSE [w EXCEPT !.errno = ErrnoOf(w.cs.response_code_)]

\* open_helper after CurlStream::open returned c (lines 487-505)
OpenHelperTail(w, c) ==
    IF c = 0 THEN w
    ELSE Destroy([w EXCEPT !.errno = ErrnoOf(w.cs.response_code_)])

\* curlstream_open after open_helper returned c (lines 515-521), and
\* hopen_net, which returns NULL unless c = 0
CurlstreamOpenTail(w, c) ==
    IF c # 0 THEN [w EXCEPT !.box = NoBox, !.res.boxes = @ - 1] ELSE w

\* curlstream_read leaving errno alone when the read has failed
CurlstreamReadTail_NoErrno(w, c) == w

\* curlstream_read after CurlStream::read returned c (lines 530-534)
CurlstreamReadTail(w, c) ==
    IF c # 0 THEN [w EXCEPT !.errno = "EIO"] ELSE w

Whences == {"SEEK_SET", "SEEK_CUR", "SEEK_END", "SEEK_DATA"}

\* curlstream_seek deleting s->stm only while its session is under way: a
\* session that has ended is left in place
curlstream_seek_KeepsEnded(w, ofs, whence) ==
    IF whence = "SEEK_END" THEN [rc |-> -1, w |-> [w EXCEPT !.errno = "ESPIPE"]]
    ELSE IF whence \notin {"SEEK_SET", "SEEK_CUR"} THEN [rc |-> -1, w |-> w]
    ELSE LET w1 == [w EXCEPT !.box.ofs = IF whence = "SEEK_SET" THEN ofs ELSE @ + ofs]
             w2 == IF w1.box.stm /\ w1.cs.final_read_rc_ > 0 THEN Destroy(w1) ELSE w1
         IN [rc |-> w2.box.ofs, w |-> w2]

\* curlstream_seek recording the offset without deleting s->stm
curlstream_seek_KeepsSession(w, ofs, whence) ==
    IF whence = "SEEK_END" THEN [rc |-> -1, w |-> [w EXCEPT !.errno = "ESPIPE"]]
    ELSE IF whence \notin {"SEEK_SET", "SEEK_CUR"} THEN [rc |-> -1, w |-> w]
    ELSE LET w1 == [w EXCEPT !.box.ofs = IF whence = "SEEK_SET" THEN ofs ELSE @ + ofs]
         IN [rc |-> w1.box.ofs, w |-> w1]

\* curlstream_seek closing the session before it looks at whence
curlstream_seek_ClosesFirst(w, ofs, whence) ==
    LET w0 == IF w.box.stm THEN Destroy(w) ELSE w IN
    IF whence = "SEEK_END" THEN [rc |-> -1, w |-> [w0 EXCEPT !.errno = "ESPIPE"]]
    ELSE IF whence \notin {"SEEK_SET", "SEEK_CUR"} THEN [rc |-> -1, w |-> w0]
    ELSE LET w1 == [w0 EXCEPT !.box.ofs = IF whence = "SEEK_SET" THEN ofs ELSE @ + ofs]
         IN [rc |-> w1.box.ofs, w |-> w1]

\* curlstream_seek: the value returned and the objects afterwards
curlstream_seek(w, ofs, whence) ==
    IF whence = "SEEK_END" THEN [rc |-> -1, w |-> [w EXCEPT !.errno = "ESPIPE"]]
    ELSE IF whence \notin {"SEEK_SET", "SEEK_CUR"} THEN [rc |-> -1, w |-> w]
    ELSE LET w1 == [w EXCEPT !.box.ofs = IF whence = "SEEK_SET" THEN ofs ELSE @ + ofs]
             w2 == IF w1.box.stm THEN Destroy(w1) ELSE w1
         IN [rc |-> w2.box.ofs, w |-> w2]

\* curlstream_close deleting the box without its CurlStream
curlstream_close_KeepsSession(w) ==
    [w EXCEPT !.box = NoBox, !.res.boxes = @ - 1]

\* curlstream_close
curlstream_close(w) ==
    LET w1 == IF w.box.stm THEN Destroy(w) ELSE w IN
    [w1 EXCEPT !.box = NoBox, !.res.boxes = @ - 1]

\* nothing kept; inits: the calls of curl_global_init so far (up to 2),
\* init_ok: whether the last returned CURLE_OK, prev: the session the last
\* successful seek replaced ("none", "running", "done", "error")
NoHist == [mode |-> "off", inits |-> 0, init_ok |-> TRUE, prev |-> "none"]

\* hist after ensure_curl_init returned g
InitSeen(hi, g) ==
    IF hi.mode = "init" /\ g.ran
    THEN [hi EXCEPT !.inits = Min(@ + 1, 2), !.init_ok = g.ok]
    ELSE hi

\* the state a CurlStream is in for its reader
StatusOf(b, c) ==
    IF ~b.stm THEN "none"
    ELSE IF c.final_read_rc_ = 0 THEN "done"
    ELSE IF c.final_read_rc_ < 0 THEN "error"
    ELSE "running"

\* hist after a seek that returned rc has replaced the session c of b
SeekSeen(hi, b, c, rc) ==
    IF hi.mode = "seek" /\ rc >= 0
    THEN [hi EXCEPT !.prev = StatusOf(b, c)]
    ELSE hi

\* ----------------------------------------------------------------- actions
InitNet ==
    /\ truncate_response_ = -1
    /\ requests_to_fail_ = 0
    /\ need_init = TRUE
    /\ errno = "0"
    /\ box = NoBox
    /\ cs = NewCurlStream
    /\ net = NoNet
    /\ pc = "idle"
    /\ call = NoCall
    /\ last = NoLast
    /\ out = NewOut(0, 0)
    /\ res = [multi |-> 0, easy |-> 0, stms |-> 0, boxes |-> 0, faulted |-> FALSE]
    /\ hf = NoH

Init ==
    /\ InitNet
    /\ cp = NoCopy
    /\ blk = NoBlock
    /\ hist = NoHist

SetWorld(w) ==
    /\ box' = w.box
    /\ cs' = w.cs
    /\ net' = w.net
    /\ errno' = w.errno
    /\ res' = w.res

\* what the caller has seen of the stream, after op returned rc with data;
\* pos is the offset the backend holds
OutAfter(op, rc, data, pos) ==
    CASE op = "hopen" -> IF pc = "idle" THEN NewOut(0, 0) ELSE out
      [] op \in {"read", "hread"} /\ rc > 0 -> [out EXCEPT !.bytes = @ \o data]
      [] op \in {"SEEK_SET", "SEEK_CUR"} -> NewOut(pos, 1)
      [] op = "hseek" /\ rc >= 0 -> NewOut(rc, 1)
      [] OTHER -> out

\* a backend call returns, and with it the hFILE call h that made it (if any)
Return(h, op, n, rc, data, code, w) ==
    LET r == HAfter(h, hf, op, n, rc, data, w.errno) IN
    /\ SetWorld(w)
    /\ pc' = "idle"
    /\ call' = NoCall
    /\ hf' = r.f
    /\ last' = [op |-> r.op, n |-> r.n, rc |-> r.rc, code |-> code]
    /\ out' = OutAfter(r.op, r.rc, r.data, w.box.ofs)
    /\ UNCHANGED <<cp, blk>>

\* an hFILE call returns a (rc, data, f) without a backend call; an hseek
\* that moves within the buffer stays in the session under way
HReturn(op, n, a) ==
    /\ hf' = a.f
    /\ errno' = "0"
    /\ last' = [op |-> op, n |-> n, rc |-> a.rc, code |-> 0]
    /\ out' = IF op = "hseek" /\ a.rc >= 0
              THEN [out EXCEPT !.base = a.rc, !.bytes = <<>>, !.seeks = 1]
              ELSE OutAfter(op, a.rc, a.data, 0)
    /\ UNCHANGED <<truncate_response_, requests_to_fail_, need_init, box, cs, net,
                   pc, call, res, cp, blk, hist>>

\* a backend call goes on driving the transport
Continue(h, where, fn, n, w) ==
    /\ SetWorld(w)
    /\ pc' = where
    /\ call' = [fn |-> fn, n |-> n, hop |-> h.hop, hn |-> h.hn]
    /\ last' = NoLast
    /\ out' = IF where = "open" /\ pc = "idle"
              THEN LET o == IF fn = "curlstream_open" THEN NewOut(0, 0) ELSE out
                   IN [o EXCEPT !.sess = Min(@ + 1, 2),
                                !.short = @ \/ w.net.short,
                                !.other = @ \/ ~w.net.mock \/ w.net.code = 500]
              ELSE out
    /\ UNCHANGED <<hf, cp, blk>>

\* curlstream_read from the call of CurlStream::read on
ReadGo(h, w, n) ==
    LET r == ReadEntry(w.cs, n) IN
    IF r.k = "loop" THEN Continue(h, "read", "curlstream_read", n, [w EXCEPT !.cs = r.cs])
    ELSE Return(h, "read", n, r.rc, r.data, w.cs.response_code_,
                CurlstreamReadTail([w EXCEPT !.cs = r.cs], r.rc))

\* CurlStream::open returned c to open_helper, called by fn
OpenDone(h, w, fn, n, c) ==
    LET w1 == OpenHelperTail(w, c) IN
    IF fn = "curlstream_open"
    THEN Return(h, "hopen", 0, c, <<>>, w.cs.response_code_, CurlstreamOpenTail(w1, c))
    ELSE IF c # 0 THEN Return(h, "read", n, c, <<>>, w.cs.response_code_, w1)
    ELSE ReadGo(h, w1, n)

Faulty(fault) == fault # "none"

\* open_helper up to the request being under way (lines 480-486, 266-309)
BeginOpen(h, w, fn, n, fault, a) ==
    LET w1 == IF w.box.stm THEN Destroy(w) ELSE w
        su == OpenSetup(NewCurlStream, need_init, fault)
        w2 == [w1 EXCEPT !.box.stm = TRUE, !.cs = su.cs,
                         !.res.faulted = Faulty(fault),
                         !.res.stms = @ + 1,
                         !.res.easy = @ + Count(su.cs.h_),
                         !.res.multi = @ + Count(su.cs.m_)]
    IN /\ need_init' = su.init.need_init
       /\ hist' = InitSeen(hist, su.init)
       /\ Faulty(fault) => su.s # 0
       /\ IF su.s # 0
          THEN /\ UNCHANGED server
               /\ a = OnRequest(w.box.url, <<>>, truncate_response_, requests_to_fail_)
               /\ OpenDone(h, w2, fn, n, su.s)
          ELSE /\ truncate_response_' = a.trunc
               /\ requests_to_fail_' = a.fails
               /\ Continue(h, "open", fn, n,
                           [w2 EXCEPT !.net = NewNet(a, w.box.ofs, RangeHeader(w.box.ofs))])

\* hopen_net: hfile_init, then curlstream_open(filename, 0)
HopenNet ==
    /\ pc = "idle"
    /\ ~box.live
    /\ \E url \in Urls, fault \in {"none"} \cup SetupFaults :
         \E a \in Answers(url, RangeHeader(0), truncate_response_, requests_to_fail_) :
            BeginOpen(Raw, [Entry EXCEPT !.box = NewBox(url, 0), !.res.boxes = @ + 1],
                      "curlstream_open", 0, fault, a)

\* net_read: curlstream_read(fp->netfp, buffer, nbytes), called by h
NetRead(h, n) ==
    IF ~box.stm
    THEN \E fault \in {"none"} \cup SetupFaults :
           \E a \in Answers(box.url, RangeHeader(box.ofs),
                            truncate_response_, requests_to_fail_) :
              BeginOpen(h, Entry, "curlstream_read", n, fault, a)
    ELSE /\ ReadGo(h, Entry, n)
         /\ UNCHANGED <<server, need_init, hist>>

\* the backend's read called by itself
CurlstreamRead ==
    /\ pc = "idle"
    /\ box.live
    /\ \E n \in 0..MaxReadN : NetRead(Raw, n)

StepFaults == {"none"} \cup PerformFaults \cup {"select"}

\* one turn of the loop in CurlStream::open: perform(), then block() or return
OpenStepWith(p, fault) ==
    LET r == perform(cs, net, p, fault)
        a == OpenAfterPerform(r.cs, box.ofs, r.s, fault = "select")
        w == [World EXCEPT !.cs = a.cs, !.net = r.net,
                           !.res.faulted = @ \/ Faulty(fault)]
    IN IF a.k = "loop" THEN Continue(HCtx, "open", call.fn, call.n, w)
       ELSE OpenDone(HCtx, w, call.fn, call.n, a.rc)

\* one turn of the loop in CurlStream::read
ReadStepWith(p, fault) ==
    LET r == perform(cs, net, p, fault)
        a == ReadAfterPerform(r.cs, call.n, r.s, fault = "select")
        w == [World EXCEPT !.cs = a.cs, !.net = r.net,
                           !.res.faulted = @ \/ Faulty(fault)]
    IN IF a.k = "loop" THEN Continue(HCtx, "read", call.fn, call.n, w)
       ELSE Return(HCtx, "read", call.n, a.rc, a.data, w.cs.response_code_,
                   CurlstreamReadTail(w, a.rc))

\* a fault is injected only where the call it names is made and within budget
FaultApplies(fault, p, after(_, _, _, _), arg) ==
    Faulty(fault) =>
        /\ ~p.fin
        /\ LET r == perform(cs, net, p, fault)
               g == perform(cs, net, p, "none")
           IN after(r.cs, arg, r.s, fault = "select") # after(g.cs, arg, g.s, FALSE)

Plays == IF cs.final_msg_ = "null" THEN Progress(net) ELSE {NoProgress(net)}

OpenStep ==
    /\ pc = "open"
    /\ \E p \in Plays, fault \in StepFaults :
         /\ FaultApplies(fault, p, OpenAfterPerform, box.ofs)
         /\ OpenStepWith(p, fault)
    /\ UNCHANGED <<server, need_init, hist>>

ReadStep ==
    /\ pc = "read"
    /\ \E p \in Plays, fault \in StepFaults :
         /\ FaultApplies(fault, p, ReadAfterPerform, call.n)
         /\ ReadStepWith(p, fault)
    /\ UNCHANGED <<server, need_init, hist>>

MaxOfs == FileSize + 1

\* net_seek: curlstream_seek(fp->netfp, offset, whence), called by h
NetSeek(h, ofs, whence) ==
    LET r == curlstream_seek(Entry, ofs, whence)
        moved == r.w.box # box
    IN /\ r.w.box.ofs \in -1..MaxOfs
       /\ hist' = SeekSeen(hist, box, cs, r.rc)
       /\ Return(h, whence, ofs, r.rc, <<>>, 0,
                 IF moved THEN [r.w EXCEPT !.res.faulted = FALSE] ELSE r.w)

\* the backend's seek called by itself
CurlstreamSeek ==
    /\ pc = "idle"
    /\ box.live
    /\ \E ofs \in -1..MaxOfs, whence \in Whences :
         /\ whence \notin {"SEEK_SET", "SEEK_CUR"} => ofs = 0
         /\ whence = "SEEK_CUR" => ofs \in -1..1
         /\ NetSeek(Raw, ofs, whence)
    /\ UNCHANGED <<server, need_init>>

\* net_close: curlstream_close(fp->netfp); hclose of a stream open for reading
CurlstreamClose ==
    /\ pc = "idle"
    /\ box.live
    /\ Return(Raw, "close", 0, 0, <<>>, 0, curlstream_close(Entry))
    /\ UNCHANGED <<server, need_init, hist>>

\* TestHTTPd::TruncateNextResponse, called by the test between client calls.
\* The server reads the value when the next request arrives, so a call made
\* while a response is in flight acts like one made after it: it is taken
\* here when no response is in flight.
TruncateNextResponse ==
    /\ pc = "idle"
    /\ ~box.stm
    /\ requests_to_fail_ = 0
    /\ \E t \in 0..FileSize :
         /\ t # truncate_response_
         /\ truncate_response_' = t
    /\ UNCHANGED <<requests_to_fail_, need_init, errno, box, cs, net, pc, call,
                   last, out, res, hf, cp, blk, hist>>

\* TestHTTPd::FailNextRequests
FailNextRequests ==
    /\ pc = "idle"
    /\ ~box.stm
    /\ truncate_response_ = -1
    /\ \E k \in 0..1 :
         /\ k # requests_to_fail_
         /\ requests_to_fail_' = k
    /\ UNCHANGED <<truncate_response_, need_init, errno, box, cs, net, pc, call,
                   last, out, res, hf, cp, blk, hist>>

Next ==
    \/ HopenNet
    \/ CurlstreamRead
    \/ OpenStep
    \/ ReadStep
    \/ CurlstreamSeek
    \/ CurlstreamClose
    \/ TruncateNextResponse
    \/ FailNextRequests

\* the backend as its callers drive it
Spec == Init /\ [][Next]_vars

\* hread on the stream hopen_net returned
HRead ==
    /\ pc = "idle"
    /\ hf.live
    /\ \E n \in 1..MaxReadN :
         LET e == hread_entry(hf, n) IN
         IF e.k = "ret" THEN HReturn("hread", n, e)
         ELSE NetRead([hop |-> "hread", hn |-> n], Capacity)

\* the name an hseek call goes by in last.op
HSeekOp(whence) == IF whence = "SEEK_SET" THEN "hseek" ELSE "hseek_end"

\* hseek on the stream hopen_net returned
HSeek ==
    /\ pc = "idle"
    /\ hf.live
    /\ \E k \in 0..MaxOfs, whence \in {"SEEK_SET", "SEEK_END"} :
         /\ whence = "SEEK_END" => k = 0
         /\ LET e == hseek_entry(hf, k, whence) IN
            IF e.k = "ret" THEN HReturn(HSeekOp(whence), k, e)
            ELSE /\ NetSeek([hop |-> HSeekOp(whence), hn |-> k], k, whence)
                 /\ UNCHANGED <<server, need_init>>

NextH ==
    \/ HopenNet
    \/ HRead
    \/ OpenStep
    \/ ReadStep
    \/ HSeek
    \/ CurlstreamClose
    \/ TruncateNextResponse
    \/ FailNextRequests

\* the backend as the buffered layer drives it
SpecH == Init /\ [][NextH]_vars

\* ------------------------------------------------------- the copy program
\* (test/hfile.c: main, the copy-through loops and the re-read)
\* what the mem: tests write: at least one byte, up to len bytes, none above
\* 127 (main writes a text, then i % 128)
MemTexts(len) ==
    {s \in Contents : Len(s) \in 1..len /\ \A i \in 1..Len(s) : s[i] < 128}

\* the first mem: test writes a text that fits the buffer of the stream, so
\* that one hread returns it
InitCopy ==
    /\ InitNet
    /\ blk = NoBlock
    /\ hist = NoHist
    /\ \E kind \in Kinds \cup MemKinds, src \in Contents :
         /\ kind = "hread_hputs_hpeek" => CStr(src) = src
         /\ kind \in MemKinds => src \in MemTexts(Capacity) /\ CStr(src) = src
         /\ cp = [NoCopy EXCEPT !.pc = IF kind \in MemKinds THEN "m_open" ELSE "start",
                                !.kind = kind, !.src = src]

NetVars == <<truncate_response_, requests_to_fail_, need_init, errno, box, cs, net,
             pc, call, last, out, res, hf, blk, hist>>

\* reopen(infname, outfname)
CopyReopen ==
    /\ cp.pc = "start"
    /\ cp' = reopen(cp)
    /\ UNCHANGED NetVars

\* the hpeek before the loop of hread(fin, buffer, 17)
CopyPeek ==
    /\ cp.pc = "peek"
    /\ \E n \in 1..(Capacity + 1) : cp' = peek_first(cp, n)
    /\ UNCHANGED NetVars

\* one turn of while ((c = hgetc(fin)) != EOF)
CopyGetc ==
    /\ cp.pc = "copy"
    /\ cp.kind = "hgetc"
    /\ cp' = getc_loop(cp)
    /\ UNCHANGED NetVars

\* one turn of while ((n = hread(fin, buffer, size)) > 0)
CopyRead ==
    /\ cp.pc = "copy"
    /\ cp.kind \in {"hpeek_hread", "hread_hpeek"}
    /\ \E n \in 1..(MaxReadN + 1), pn \in 1..(Capacity + 1) : cp' = read_loop(cp, n, pn)
    /\ UNCHANGED NetVars

\* one turn of the loop of hread, hputs and hpeek with its check_offset calls
CopyPuts ==
    /\ cp.pc = "copy"
    /\ cp.kind = "hread_hputs_hpeek"
    /\ \E n \in 1..(MaxReadN + 1), pn \in 1..(Capacity + 1) : cp' = puts_loop(cp, n, pn)
    /\ UNCHANGED NetVars

\* hclose of both streams, and the output opened for reading
CopyClose ==
    /\ cp.pc = "eof"
    /\ cp' = close_and_reread(cp)
    /\ UNCHANGED NetVars

\* one turn of the hgetc loop that reads the output back
CopyReread ==
    /\ cp.pc = "reread"
    /\ cp' = reread_loop(cp)
    /\ UNCHANGED NetVars

\* fout = hopen(memfname, "w")
CopyMemOpen ==
    /\ cp.pc = "m_open"
    /\ cp' = mem_open(cp)
    /\ UNCHANGED NetVars

\* one hwrite to the mem: stream
CopyMemWrite ==
    /\ cp.pc = "m_write"
    /\ cp' = mem_write_loop(cp)
    /\ UNCHANGED NetVars

\* hclose(fout) and the checks of what it left
CopyMemClose ==
    /\ cp.pc = "m_close"
    /\ cp' = mem_close(cp)
    /\ UNCHANGED NetVars

\* fin = hopen(memfname, "r")
CopyMemReopen ==
    /\ cp.pc = "m_reopen"
    /\ \E data \in mem_contents(cp.mbuffer, mem_length(cp)) : cp' = mem_reopen(cp, data)
    /\ UNCHANGED NetVars

\* the read-back: one hread in the first test, one turn of the loop of hseek
\* and hread in the second
CopyMemRead ==
    /\ cp.pc = "m_read"
    /\ cp' = IF cp.round = 1 THEN mem_read_all(cp) ELSE mem_seek_read(cp)
    /\ UNCHANGED NetVars

\* the second test: what it writes
CopyMemNext ==
    /\ cp.pc = "m_next"
    /\ \E src \in MemTexts(MaxLen) : cp' = [cp EXCEPT !.src = src, !.pc = "m_open"]
    /\ UNCHANGED NetVars

NextCopy ==
    \/ CopyReopen
    \/ CopyPeek
    \/ CopyGetc
    \/ CopyRead
    \/ CopyPuts
    \/ CopyClose
    \/ CopyReread
    \/ CopyMemOpen
    \/ CopyMemWrite
    \/ CopyMemClose
    \/ CopyMemReopen
    \/ CopyMemRead
    \/ CopyMemNext

SpecCopy == InitCopy /\ [][NextCopy]_vars

\* ------------------------------- interleaved reads, writes and seeks
\* (test/hfile.c: main, lines 141-168, with any calls in any order)
\* the input files: its bytes differ, so that a byte tells its position
RWInputs ==
    {s \in Contents : \A i \in 1..Len(s) : s[i] = <<65, 0, 255>>[((i - 1) % 3) + 1]}

InitRW ==
    /\ InitNet
    /\ blk = NoBlock
    /\ hist = NoHist
    /\ \E src \in RWInputs : cp = [NoCopy EXCEPT !.pc = "start", !.kind = "rw", !.src = src]

RWRunning == cp.pc = "copy" /\ cp.kind \in RWKinds

RWRead ==
    /\ RWRunning
    /\ \E n \in 0..(Capacity + 1) : cp' = rw_read(cp, n)
    /\ UNCHANGED NetVars

RWPeek ==
    /\ RWRunning
    /\ \E n \in 0..(Capacity + 1) : cp' = rw_peek(cp, n)
    /\ UNCHANGED NetVars

\* the output file is kept within MaxOut bytes
RWWrite ==
    /\ RWRunning
    /\ \E api \in WriteApis, data \in Contents :
         /\ Len(data) >= 1
         /\ api = "hputc" => Len(data) = 1
         /\ cp.off + Len(data) <= MaxOut
         /\ cp' = rw_write(cp, api, data)
    /\ UNCHANGED NetVars

RWFlush ==
    /\ RWRunning
    /\ cp' = rw_flush(cp)
    /\ UNCHANGED NetVars

\* seeks go to positions within the file
RWSeekIn ==
    /\ RWRunning
    /\ \E k \in 0..Len(cp.src) : cp' = rw_seek_in(cp, k)
    /\ UNCHANGED NetVars

RWSeekOut ==
    /\ RWRunning
    /\ \E k \in 0..Len(cp.got) : cp' = rw_seek_out(cp, k)
    /\ UNCHANGED NetVars

NextRW ==
    \/ CopyReopen
    \/ RWRead
    \/ RWPeek
    \/ RWWrite
    \/ RWFlush
    \/ RWSeekIn
    \/ RWSeekOut

SpecRW == InitRW /\ [][NextRW]_vars

\* ------------------------------------------------------ the bounded wait
\* block() is about to be called, the transport suggesting any of Timeos
InitBlock ==
    /\ InitNet
    /\ cp = NoCopy
    /\ hist = NoHist
    /\ \E t \in Timeos : blk = [NoBlock EXCEPT !.pc = "call", !.curl_timeo = t]

\* one call of block()
Block ==
    /\ blk.pc = "call"
    /\ \E fault \in {"none"} \cup BlockFaults :
         LET r == block(blk.curl_timeo, fault) IN
         blk' = [pc |-> "done", curl_timeo |-> blk.curl_timeo, fault |-> fault,
                 s |-> r.s, selected |-> r.selected,
                 tv_sec |-> r.tv_sec, tv_usec |-> r.tv_usec]
    /\ UNCHANGED <<truncate_response_, requests_to_fail_, need_init, errno, box, cs,
                   net, pc, call, last, out, res, hf, cp, hist>>

NextBlock == Block

SpecBlock == InitBlock /\ [][NextBlock]_vars

\* ------------------------------------------- the backend with its history
\* the calls of curl_global_init are kept
InitG ==
    /\ InitNet
    /\ cp = NoCopy
    /\ blk = NoBlock
    /\ hist = [NoHist EXCEPT !.mode = "init"]

SpecG == InitG /\ [][Next]_vars

\* the session each seek replaced is kept
InitS ==
    /\ InitNet
    /\ cp = NoCopy
    /\ blk = NoBlock
    /\ hist = [NoHist EXCEPT !.mode = "seek"]

SpecS == InitS /\ [][Next]_vars

\* ------------------------------------------- the backend with a live transport
\* The loops of open and read run perform() and block() again and again (a
\* turn that brings nothing leaves the state as it is), and the transport
\* eventually brings something: the headers, a chunk, or the end of the
\* transfer.
SpecLive == Init /\ [][Next]_vars /\ WF_vars(OpenStep) /\ WF_vars(ReadStep)

\* ------------------------------------------------------------- properties
TwoHundreds == 200..299

IsPrefix(a, b) == Len(a) <= Len(b) /\ a = SubSeq(b, 1, Len(a))

\* an API call op has just returned to the caller
Returned(op) == pc = "idle" /\ last.op = op

\* a read that asked for at least one byte has just returned
ReadReturned == Returned("read") /\ last.n >= 1

\* the stream was opened by hopen at offset 0, has not been seeked, and the
\* mock server's answer to its one request is in cs; no library call failed
FirstSession ==
    /\ pc = "idle" /\ box.live /\ box.stm
    /\ out.seeks = 0
    /\ net.mock /\ net.code = 200
    /\ ~res.faulted

Rest == FileSlice(out.base, FileSize - out.base)

\* C2: on a stream read through hread whose current response the server has
\* truncated, wherever the stream was positioned (hopen at 0, or hseek), the
\* bytes returned are bytes of the file from that position, end-of-stream is
\* never reported, and an hread that returns no byte returns a negative
\* value and leaves herrno non-zero
C2_TruncatedReadFails ==
    (pc = "idle" /\ hf.live /\ out.short)
        => /\ ~hf.at_eof
           /\ IsPrefix(out.bytes, Rest)
           /\ (Returned("hread") /\ last.rc <= 0)
                 => (last.rc < 0 /\ herrno(hf) # "0")

C2_Witness ==
    /\ pc = "idle" /\ hf.live /\ out.short
    /\ out.seeks = 1 /\ out.base > 0
    /\ Returned("hread") /\ last.rc < 0
    /\ out.bytes # <<>>
    /\ herrno(hf) = "EIO"

C4_SeekThenRead ==
    /\ (Returned("hseek") /\ last.n <= FileSize /\ herrno(hf) = "0")
          => (last.rc = last.n /\ htell(hf) = last.n)
    /\ (pc = "idle" /\ hf.live /\ out.seeks = 1 /\ out.base <= FileSize
          /\ ~out.short /\ ~out.other /\ ~res.faulted /\ herrno(hf) # "ESPIPE")
          => /\ IsPrefix(out.bytes, Rest)
             /\ htell(hf) = out.base + Len(out.bytes)
             /\ (Returned("hread") /\ last.rc <= 0)
                   => (last.rc = 0 /\ out.bytes = Rest)

\* C5: a CurlStream whose open has returned 0 has received a response code in
\* 200..299, and exactly 206 if it was opened at an offset > 0
C5_OpenAccepts ==
    (box.stm /\ pc # "open")
        => /\ net.hdr
           /\ cs.response_code_ = net.code
           /\ cs.response_code_ \in TwoHundreds
           /\ box.ofs > 0 => cs.response_code_ = 206

C5_Witness ==
    /\ box.stm /\ pc = "idle" /\ box.ofs > 0
    /\ cs.response_code_ = 206
    /\ Returned("read") /\ last.rc > 0

\* C6 as stated: hopen succeeds whenever the server answers 2xx, wherever the
\* body is truncated
C6_OpenSucceedsOn2xx ==
    (Returned("hopen") /\ last.code \in TwoHundreds /\ ~res.faulted)
        => (last.rc = 0 /\ box.live)

\* the error kinds of the open, by response code
KindOf(code) ==
    CASE code \in {401, 403, 407} -> {"EPERM", "EACCES"}
      [] code \in {404, 410} -> {"ENOENT"}
      [] code \in {408, 504} -> {"ETIMEDOUT"}
      [] code = 503 -> {"EAGAIN"}
      [] OTHER -> IF code \in 400..499 THEN {"EINVAL"} ELSE {"EIO"}

\* C7: when hopen returns with a response code outside 200..299 (or none: 0),
\* it has failed, no box, stream or handle is left, and errno is the kind of
\* the code
C7_OpenFailureKinds ==
    (Returned("hopen") /\ last.code \notin TwoHundreds)
        => /\ last.rc # 0
           /\ box = NoBox /\ cs = NewCurlStream /\ net = NoNet
           /\ res.boxes = 0 /\ res.stms = 0 /\ res.easy = 0 /\ res.multi = 0
           /\ errno \in KindOf(last.code)

C7_Witness ==
    /\ Returned("hopen") /\ last.code = 503
    /\ last.rc = -4
    /\ errno = "EAGAIN"

\* C8 as stated: after a seek to offset FileSize the server answers 416 and
\* the next read returns 0
C8_416IsEof ==
    (ReadReturned /\ last.code = 416 /\ box.ofs = FileSize /\ ~res.faulted)
        => last.rc = 0

\* C9: a SEEK_END seek returns -1 with errno ESPIPE and changes nothing else:
\* not the offset, not the session, not what the reads deliver next
C9_SeekEndFrame ==
    [][(pc = "idle" /\ pc' = "idle" /\ last'.op = "SEEK_END")
          => /\ last'.rc = -1
             /\ errno' = "ESPIPE"
             /\ box' = box /\ cs' = cs /\ net' = net /\ out' = out
             /\ res' = res]_vars

C9_Witness ==
    /\ Returned("SEEK_END") /\ last.rc = -1 /\ errno = "ESPIPE"
    /\ box.stm /\ out.bytes # <<>> /\ cs.buf_ # <<>>

\* C12 as stated: whatever n is, a curlstream_read that returns 0 finds the
\* transfer finished with CURLE_OK and every body byte received and delivered
\* (nothing left in the FIFO, nothing left to receive)
C12_ZeroOnlyAtEnd ==
    (Returned("read") /\ last.rc = 0)
        => /\ box.stm
           /\ cs.final_msg_ = "CURLE_OK"
           /\ cs.buf_ = <<>>
           /\ net.rem = <<>>

\* C12, amended: a curlstream_read of n >= 1 bytes that returns 0 finds the
\* transfer finished with CURLE_OK and every body byte received and delivered
C12_ZeroOnlyAtEndOfBody ==
    (Returned("read") /\ last.rc = 0 /\ last.n >= 1)
        => /\ box.stm
           /\ cs.final_msg_ = "CURLE_OK"
           /\ cs.buf_ = <<>>
           /\ net.rem = <<>>

C12_Witness ==
    /\ Returned("read") /\ last.rc = 0 /\ last.n >= 1
    /\ cs.final_msg_ = "CURLE_OK" /\ cs.buf_ = <<>>
    /\ out.seeks = 1 /\ out.base = 1
    /\ out.bytes = Rest

\* the hFILE calls on the HTTP stream, as last.op names them
HOps == {"hread", "hseek", "hseek_end"}

\* C13: an hread or hseek that fails leaves herrno non-zero, and an hread or
\* hseek on a stream whose herrno is non-zero returns -1 and changes neither
\* the hFILE (offset, buffer, error) nor the backend (offset, session,
\* transfer, objects) nor what has been delivered
C13_StickyError ==
    [][/\ (pc' = "idle" /\ last'.op \in HOps /\ last'.rc < 0)
             => herrno(hf') # "0"
       /\ (pc = "idle" /\ hf.live /\ herrno(hf) # "0" /\ last'.op \in HOps)
             => /\ pc' = "idle"
                /\ last'.rc = -1
                /\ hf' = hf
                /\ box' = box /\ cs' = cs /\ net' = net /\ res' = res
                /\ out' = out]_vars

C13_Witness ==
    /\ Returned("hseek") /\ last.rc = -1
    /\ herrno(hf) = "EIO"
    /\ out.short /\ out.bytes # <<>>
    /\ htell(hf) = out.base + Len(out.bytes)

\* C10: whichever loop copies the input (hgetc/hputc, hread/hwrite after an
\* hpeek, hread/hwrite with an hpeek in each turn), whatever the bytes and
\* the sizes asked for, no call fails, the output file after hclose is the
\* input byte for byte, and reading it back with hgetc gives the same bytes
\* and then EOF
C10_RoundTrip ==
    /\ cp.pc # "failed"
    /\ cp.pc \in {"reread", "done"} => cp.fout.file.data = cp.src
    /\ cp.pc = "reread" => IsPrefix(cp.got, cp.src)
    /\ cp.pc = "done" => cp.got = cp.src

C10_Witness ==
    /\ cp.pc = "done"
    /\ cp.kind = "hread_hpeek"
    /\ Len(cp.src) = MaxLen
    /\ {0, 255} \subseteq {cp.src[i] : i \in 1..Len(cp.src)}
    /\ cp.got = cp.src

\* C11: in the loop of hread, hputs and hpeek, whatever the sizes asked for
\* and whatever the buffer holds, htell is the same before and after every
\* hpeek (no check_offset fails), an hpeek returns between 0 and n bytes, and
\* the bytes the peeks return are the bytes the hread calls after them return
\* first (end-of-stream is not reported while peeked bytes are unread)
C11_PeekIdempotence ==
    cp.kind = "hread_hputs_hpeek"
        => /\ cp.pc # "failed"
           /\ cp.pk.pre = cp.pk.post
           /\ cp.pk.rc >= 0 /\ cp.pk.rc <= cp.pk.n
           /\ cp.ok

C11_Witness ==
    /\ cp.kind = "hread_hputs_hpeek"
    /\ cp.pc = "copy"
    /\ cp.off = 1
    /\ cp.pk.n > Capacity /\ cp.pk.rc = Capacity
    /\ cp.pk.pre = 1 /\ cp.pk.post = 1
    /\ cp.pend = SubSeq(cp.src, 2, 1 + Capacity)

\* C14: after hclose of a mem: stream opened for writing, *pmlength is the
\* number of bytes written (not the capacity allocated), *pmbuffer is not
\* null and its first *pmlength bytes are the bytes written, in order; and the
\* stream opened again for reading returns these bytes
C14_MemClose ==
    cp.kind \in MemKinds =>
        /\ cp.pc # "failed"
        /\ cp.pc = "m_reopen" =>
             /\ cp.mlength = Len(cp.src)
             /\ ~cp.mbuffer.null
             /\ Len(cp.mbuffer.bytes) >= cp.mlength
             /\ SubSeq(cp.mbuffer.bytes, 1, cp.mlength) = cp.src
        /\ cp.pc = "m_read" => cp.fin.file.data = cp.src
        /\ (cp.pc = "m_read" /\ cp.round = 2) =>
             cp.got = SubSeq(cp.src, cp.off + 2, Len(cp.src))
        /\ cp.pc \in {"m_next", "m_done"} => cp.got = cp.src

C14_Witness ==
    /\ cp.kind \in MemKinds
    /\ cp.pc = "m_done"
    /\ cp.round = 2
    /\ Len(cp.src) = MaxLen
    /\ cp.cap > cp.mlength
    /\ cp.mlength = MaxLen
    /\ cp.got = cp.src

\* C15: every wait is bounded by one second: whatever timeout the transport
\* suggests (none, or any number of milliseconds), the timeval block() passes
\* to select is at most 1 s
C15_WaitBounded ==
    (blk.pc = "done" /\ blk.selected)
        => blk.tv_sec * 1000000 + blk.tv_usec <= 1000000

\* C16: curl_global_init is invoked at most once in the process, and no
\* session is started unless that one invocation succeeded
C16_InitOnce ==
    /\ hist.inits <= 1
    /\ (box.stm /\ cs.m_ /\ cs.h_) => (hist.inits = 1 /\ hist.init_ok)

\* the whences curlstream_seek moves the stream for
SeekOps == {"SEEK_SET", "SEEK_CUR"}

\* C17: a successful seek (SEEK_SET or SEEK_CUR) closes the session and
\* records the offset it returns, and issues no request: no response is in
\* flight and no session has been started when it returns, nor until a read
\* is made. The read made next starts one session, at the recorded offset
\* and with the range header of that offset, and starts no other before it
\* returns.
C17_SeekThenOneSession ==
    [][/\ (pc = "idle" /\ pc' = "idle" /\ last'.op \in SeekOps /\ last'.rc >= 0)
            => /\ ~box'.stm
               /\ cs' = NewCurlStream
               /\ net' = NoNet
               /\ box'.ofs = last'.rc
               /\ out'.sess = 0
               /\ res'.stms = 0 /\ res'.easy = 0 /\ res'.multi = 0
       /\ (pc = "idle" /\ last.op \in SeekOps /\ last.rc >= 0 /\ pc' = "open")
            => /\ call'.fn = "curlstream_read"
               /\ box'.stm
               /\ out'.sess = 1
               /\ net'.S = last.rc
               /\ net'.range = RangeHeader(last.rc)
       /\ (pc = "idle" /\ last.op \in SeekOps /\ last.rc >= 0 /\ last'.op = "read")
            => (last'.rc < 0 /\ net' = NoNet /\ out'.sess = 0)
       /\ pc # "idle" => (out'.sess = out.sess /\ box'.ofs = box.ofs)]_vars

C17_Witness ==
    /\ Returned("read") /\ last.rc > 0
    /\ out.seeks = 1 /\ out.sess = 1
    /\ out.base = 1 /\ box.ofs = 1
    /\ net.S = 1 /\ net.range = RangeHeader(1)
    /\ out.bytes = SubSeq(Rest, 1, last.rc)

\* C18: a SEEK_CUR seek moves relative to the reader's logical offset: made
\* when the session started at S has delivered D bytes, seek(k, SEEK_CUR)
\* returns S + D + k, and that is the offset recorded for the next session
C18_SeekCurRelative ==
    [][(pc = "idle" /\ pc' = "idle" /\ box.stm /\ out.sess = 1
            /\ last'.op = "SEEK_CUR")
          => /\ last'.rc = out.base + Len(out.bytes) + last'.n
             /\ box'.ofs = out.base + Len(out.bytes) + last'.n]_vars

\* a curlstream_read of n >= 1 bytes has just reported the end of a session:
\* 0, or a negative value with no call of the transport library having failed
SessionEnded == ReadReturned /\ last.rc <= 0 /\ ~res.faulted

\* a step of the test (TruncateNextResponse, FailNextRequests), not of the client
ServerCall == pc = "idle" /\ pc' = "idle" /\ server' # server

\* C19: the terminal status of a session is sticky: once a read has reported
\* the end of a session (0, or a negative value after an error), the read
\* made next returns at once with the same value, delivers no byte, starts no
\* session and makes no transport progress
C19_TerminalSticky ==
    [][(SessionEnded /\ last'.op \in {"read", "none"} /\ ~ServerCall)
          => /\ pc' = "idle"
             /\ last'.rc = last.rc
             /\ out' = out
             /\ net' = net
             /\ server' = server]_vars

\* the stream has been moved by a seek to an offset inside the file, and
\* since then at most one session has been started, answered in full by the
\* mock server, with no call of the transport library failing
AfterSeek ==
    /\ pc = "idle" /\ box.live
    /\ out.seeks = 1 /\ out.sess <= 1
    /\ out.base >= 0 /\ out.base < FileSize
    /\ ~out.short /\ ~out.other /\ ~res.faulted

\* C20: whatever session the seek replaced (ended in Done, ended in an error,
\* under way with or without bytes in its FIFO, or none), the reads after a
\* successful seek deliver the bytes of the file from the new offset and
\* nothing else: no byte of the old session, no end-of-stream before the last
\* byte of the file, and no error
C20_FreshSession ==
    AfterSeek
        => /\ IsPrefix(out.bytes, Rest)
           /\ out.sess = 0 => (~box.stm /\ cs = NewCurlStream /\ out.bytes = <<>>)
           /\ ReadReturned
                 => /\ last.rc >= 0
                    /\ last.rc = 0 => out.bytes = Rest

C20_Witness ==
    /\ AfterSeek /\ ReadReturned
    /\ hist.prev = "error"
    /\ out.base = 1
    /\ last.rc = 0
    /\ out.bytes = Rest

\* a curlstream_read that has to open the session (s->stm is null: a seek
\* came before) returns
LazyOpenReturns ==
    /\ \/ pc = "open" /\ call.fn = "curlstream_read"
       \/ pc = "idle" /\ box.live /\ ~box.stm
    /\ pc' = "idle"
    /\ last'.op = "read"

\* the values CurlStream::open returns when it fails
OpenFailures == {-1, -4, -8}

\* C21: when the open that a read performs after a seek fails, the read
\* returns the negative status of the open and no byte, errno is set, and the
\* stream is left without a session and without a request in flight; the
\* read returns 0 only when asked for 0 bytes of a session that was opened
C21_LazyOpenFailureSurfaces ==
    [][LazyOpenReturns
          => /\ last'.rc < 0
                  => /\ last'.rc \in OpenFailures
                     /\ out'.bytes = out.bytes
                     /\ errno' # "0"
                     /\ ~box'.stm /\ box'.live
                     /\ cs' = NewCurlStream
                     /\ net' = NoNet
                     /\ res'.stms = 0 /\ res'.easy = 0 /\ res'.multi = 0
             /\ last'.rc = 0
                  => (last'.n = 0 /\ box'.stm /\ cs'.response_code_ \in TwoHundreds)
             /\ last'.rc > 0 => box'.stm]_vars

C21_Witness ==
    /\ Returned("read") /\ last.rc = -4 /\ last.code = 416
    /\ out.seeks = 1 /\ out.base = FileSize /\ out.bytes = <<>>
    /\ box.live /\ ~box.stm /\ net = NoNet
    /\ errno = "EINVAL"

\* the body of the session under way as its reader meets it: the bytes the
\* reads have returned, the chunks waiting in the FIFO, the bytes the
\* transport has yet to hand over
BodyStream == out.bytes \o Flatten(cs.buf_) \o net.rem

\* a step of the client inside one session: no open_helper, seek or close
SameSession ==
    /\ box.stm /\ box'.stm /\ net.live /\ net'.live
    /\ ~ServerCall
    /\ ~(pc = "idle" /\ pc' = "open")

\* C22: within one session, whatever chunks the transport hands over and
\* whatever sizes the reads ask for, the bytes the reads return followed by
\* the bytes waiting in the FIFO are the bytes received so far, in order: no
\* step loses, repeats or reorders a byte, the FIFO holds no empty chunk, and a
\* read that returns rc > 0 returns the next rc <= n bytes of the body
C22_FifoPreservesStream ==
    /\ [](box.stm /\ net.live
            => /\ Len(BodyStream) = net.actual
               /\ \A i \in 1..Len(cs.buf_) : cs.buf_[i] # <<>>)
    /\ [][SameSession
            => /\ BodyStream' = BodyStream
               /\ (pc' = "idle" /\ last'.op = "read" /\ last'.rc > 0)
                     => /\ last'.rc <= last'.n
                        /\ Len(out'.bytes) = Len(out.bytes) + last'.rc
                        /\ IsPrefix(out.bytes, out'.bytes)
               /\ ~(pc' = "idle" /\ last'.op = "read" /\ last'.rc > 0)
                     => out'.bytes = out.bytes]_vars

\* a read of one byte has taken the first byte of a chunk queued before
\* another chunk, and the rest of that chunk is back at the front
C22_Witness ==
    /\ Returned("read") /\ last.n = 1 /\ last.rc = 1
    /\ box.stm /\ net.live /\ net.rem = <<>>
    /\ cs.buf_ = <<<<File[2]>>, <<File[3]>>>>
    /\ out.bytes = <<File[1]>>

\* C23: the request of a session carries a Range header exactly when the
\* session starts at an offset greater than 0, its value then being
\* bytes=<ofs>- with ofs in decimal; a session starting at 0 sends none
C23_RangeIffPositive ==
    net.live
        => /\ net.range # <<>> <=> net.S > 0
           /\ net.S > 0 => net.range = BytesEq \o ToDec(net.S) \o <<"-">>

\* what holds of a session whose open succeeded when a read has returned
\* rc <= 0: nothing received is left in the FIFO, the reads have returned
\* every byte the transport handed over, and the session has ended (rc is 0
\* only after a transfer that finished OK) unless a transport call failed
Drained ==
    /\ cs.buf_ = <<>>
    /\ Len(out.bytes) = net.actual - Len(net.rem)
    /\ last.rc = 0 => (net.rem = <<>> /\ net.result = "CURLE_OK"
                       /\ cs.final_read_rc_ = 0)
    /\ last.rc < 0 => (last.rc = -1 /\ (cs.final_read_rc_ = -1 \/ res.faulted))
    /\ cs.final_read_rc_ <= 0 => (net.rem = <<>> /\ cs.final_read_rc_ = last.rc)

\* C24 as stated, for reads of any size: a read of a session whose open
\* succeeded returns 0 or a negative value only when every byte received has
\* been returned
C24_NoEarlyTerminalAnyN ==
    (Returned("read") /\ box.stm /\ last.rc <= 0) => Drained

\* C24: a read of n >= 1 bytes of a session whose open succeeded returns 0 or
\* a negative value only when every body byte the transport handed over has
\* been returned by the reads before it
C24_NoEarlyTerminal ==
    (ReadReturned /\ box.stm /\ last.rc <= 0) => Drained

\* a truncated response: the reads returned its one byte, then the error
C24_Witness ==
    /\ ReadReturned /\ box.stm /\ last.rc = -1
    /\ net.short /\ net.actual = 1 /\ net.result = "CURLE_PARTIAL_FILE"
    /\ out.bytes = <<File[1]>>
    /\ cs.final_read_rc_ = -1

\* C27: curlstream_read changes errno only when it reports an error: after a
\* call that returned a byte count or 0, errno is as it was at the entry of the
\* call ("0" here), and after a call that returned a negative value from its
\* session errno is EIO
C27_ErrnoOnlyOnError ==
    Returned("read")
        => /\ last.rc >= 0 => errno = "0"
           /\ (last.rc < 0 /\ box.stm) => errno = "EIO"

\* C25: the objects alive are the ones the stream owns: at most one
\* CurlStream with at most one easy and one multi handle, none without a
\* stream, no object released twice (no count is negative) and none kept
\* after it is let go; after a failed curlstream_open and after
\* curlstream_close neither the box nor a session is left
C25_SessionsOwned ==
    /\ res.boxes = Count(box.live)
    /\ res.stms = Count(box.stm)
    /\ res.easy = Count(box.stm /\ cs.h_)
    /\ res.multi = Count(box.stm /\ cs.m_)
    /\ box.stm => box.live
    /\ cs.h_ => cs.m_
    /\ ~box.stm => (cs = NewCurlStream /\ net = NoNet)
    /\ ((Returned("hopen") /\ last.rc # 0) \/ Returned("close"))
          => (~box.live /\ ~box.stm /\ res.stms = 0 /\ res.boxes = 0)

\* a stream closed after a seek and a read that opened its second session
C25_Witness ==
    /\ Returned("close")
    /\ out.seeks = 1 /\ out.sess >= 1 /\ out.bytes # <<>>
    /\ res.stms = 0 /\ res.easy = 0 /\ res.multi = 0 /\ res.boxes = 0

\* no call of the transport library has failed in the session
NoFault == ~res.faulted

\* C26: with a transport that eventually hands over a chunk or reports the
\* end of the transfer, every read returns and every open returns; when no
\* transport call has failed, a read returns only with at least one byte
\* delivered or deliverable or with its session ended, and an open returns
\* only with the response code of the answer known or, when there is no
\* answer, with the transfer finished
C26_CallsReturn ==
    /\ (pc = "read") ~> (pc = "idle" /\ last.op \in {"read", "hread"})
    /\ (pc = "open") ~> (pc # "open")
    /\ []((Returned("read") /\ NoFault)
             => \/ last.rc > 0
                \/ box.stm /\ cs.buf_ # <<>>
                \/ box.stm /\ cs.final_read_rc_ <= 0 /\ cs.final_msg_ # "null"
                \/ ~box.stm /\ last.rc < 0)
    /\ [][(pc = "open" /\ pc' # "open" /\ ~res'.faulted)
             => /\ IF pc' = "idle" THEN last'.code = net.code
                   ELSE cs'.response_code_ = net.code
                /\ net.code = 0 => (pc' = "idle" /\ last'.rc = -1)]_vars

\* a read that had to wait for the transport has returned the first byte
C26_Witness ==
    /\ Returned("read") /\ NoFault /\ last.rc = 1
    /\ out.bytes = <<File[1]>>
    /\ cs.buf_ = <<>> /\ net.rem # <<>>

\* the buffer of the hFILE f is within its bounds
BufferInBounds(f) ==
    /\ 0 <= f.begin /\ f.begin <= f.end /\ f.end <= Capacity
    /\ Len(f.buf) = f.end - f.begin

\* C28: between any two calls of hread, hpeek, hwrite, hputc, hputs, hflush
\* and hseek, each stream has 0 <= begin <= end <= capacity, and its one
\* buffer holds bytes of one kind only: on the stream open for reading the
\* bytes of the file that come next (nothing was written to its file), on
\* the stream open for writing the bytes accepted and not yet written out
\* (nothing was read into it: at_eof is clear and the pending bytes start at
\* the backend's position)
C28_BufferInvariants ==
    RWRunning
        => /\ BufferInBounds(cp.fin.f)
           /\ BufferInBounds(cp.fout.f)
           /\ cp.fin.f.mode = "r" /\ cp.fout.f.mode = "w"
           /\ cp.fin.file.data = cp.src
           /\ cp.fin.f.buf = SubSeq(cp.src, cp.fin.f.offset + 1,
                                    cp.fin.f.offset + Len(cp.fin.f.buf))
           /\ cp.fin.file.pos = cp.fin.f.offset + Len(cp.fin.f.buf)
           /\ ~cp.fout.f.at_eof
           /\ cp.fout.f.begin = 0
           /\ cp.fout.file.pos = cp.fout.f.offset
           /\ Len(cp.fout.f.buf) < Capacity

\* both buffers hold bytes: read ahead on fin, pending on fout, after a seek
\* on each
C28_Witness ==
    /\ RWRunning
    /\ cp.fin.f.begin = 1 /\ cp.fin.f.end = 2 /\ cp.fin.f.offset = 2
    /\ cp.fout.f.end = 1 /\ cp.fout.f.offset = 1 /\ Len(cp.fout.file.data) = 2

\* C29: on the stream open for writing, htell is the position of the last
\* seek (0 after the open) plus the bytes hwrite, hputc and hputs have
\* accepted since, whatever is pending; the pending bytes are the last
\* accepted ones, in order, at the backend's position; hflush and a
\* successful hseek leave nothing pending, the file holding every byte
\* accepted where it was written, and hflush does not change htell
C29_WriteOffset ==
    RWRunning
        => /\ htell(cp.fout.f) = cp.off
           /\ file_write(cp.fout.file, cp.fout.f.buf).data = cp.got
           /\ cp.op \in WriteApis
                 => (cp.pk.rc >= 0 /\ cp.pk.post = cp.pk.pre + cp.pk.rc)
           /\ cp.op = "hflush"
                 => /\ cp.pk.rc = 0
                    /\ cp.pk.post = cp.pk.pre
                    /\ cp.fout.f.buf = <<>>
                    /\ cp.fout.file.data = cp.got
           /\ cp.op = "hseek_out"
                 => /\ cp.pk.rc = cp.pk.n
                    /\ cp.pk.post = cp.pk.n
                    /\ cp.fout.f.buf = <<>>
                    /\ cp.fout.file.data = cp.got

\* a byte written after a seek back to 1 is pending over a file of MaxOut
\* bytes written by one hwrite
C29_Witness ==
    /\ RWRunning
    /\ cp.op = "hputc"
    /\ Len(cp.fout.file.data) = MaxOut /\ cp.fout.f.offset = 1
    /\ cp.fout.f.buf = <<255>>
    /\ cp.got = <<65, 255, 65>>
    /\ htell(cp.fout.f) = 2

\* C30: the offset the reader holds is never negative, and no session is
\* started at a negative offset or with a negative offset in its Range header
C30_OffsetNonNegative ==
    /\ box.live => box.ofs >= 0
    /\ net.live => /\ net.S >= 0
                   /\ net.range # <<>> => net.range[Len(BytesEq) + 1] # "-"

====
